---- MODULE Spec2Model ----
(***************************************************************************)
(* A model of network-tools: the Telnet negotiator (byte parser and option *)
(* policy), the asynchronous Telnet client and the protocol detector.      *)
(* Bytes are naturals in 0..255, byte strings are sequences of bytes, and  *)
(* a Python dict is a function whose DOMAIN is the set of its keys.        *)
(***************************************************************************)
EXTENDS Integers, Sequences, FiniteSets, TLC

(* ----------------------------------------------------------------------- *)
(* clients/telnet/types.py                                                 *)
(* ----------------------------------------------------------------------- *)

IAC_BYTE == 255

ParserState_DATA == 0
ParserState_IAC == 1
ParserState_COMMAND == 2
ParserState_SUBNEG == 3
ParserState_SUBNEG_IAC == 4

IAC == 255
DONT == 254
DO == 253
WONT == 252
WILL == 251
SB == 250
SE == 240

BINARY == 0
ECHO == 1
SGA == 3
STATUS == 5
TERMINAL_TYPE == 24
NAWS == 31
LINEMODE == 34

is_negotiation(cmd) == cmd \in {DO, DONT, WILL, WONT}

(* get_response_command with the DONT and WONT rows exchanged *)
get_response_command_swapped(cmd) ==
    CASE cmd = DO -> WILL
      [] cmd = DONT -> DONT
      [] cmd = WILL -> DO
      [] cmd = WONT -> WONT
      [] OTHER -> 0

get_response_command(cmd) ==
    CASE cmd = DO -> WILL
      [] cmd = DONT -> WONT
      [] cmd = WILL -> DO
      [] cmd = WONT -> DONT
      [] OTHER -> 0

get_common_options == {SGA, ECHO, BINARY}

get_advanced_options == {TERMINAL_TYPE, NAWS}

create_command(command, option) == <<IAC, command, option>>

create_subnegotiation(option, data) == <<IAC, SB, option>> \o data \o <<IAC, SE>>

accept(command, option) == create_command(get_response_command(command), option)

reject(command, option) ==
    IF command = DO THEN create_command(WONT, option)
    ELSE IF command = WILL THEN create_command(DONT, option)
    ELSE accept(command, option)

(* ----------------------------------------------------------------------- *)
(* Python dict[int, bool] as a function over its keys                      *)
(* ----------------------------------------------------------------------- *)

EmptyDict == [k \in {} |-> FALSE]

DictSet(d, key, value) ==
    [k \in (DOMAIN d) \cup {key} |-> IF k = key THEN value ELSE d[k]]

DictTrue(d, key) == key \in DOMAIN d /\ d[key] = TRUE

DictFalse(d, key) == key \in DOMAIN d /\ d[key] = FALSE

(* ----------------------------------------------------------------------- *)
(* clients/telnet/negotiate.py: TelnetNegotiator                           *)
(* A negotiator value holds the dataclass fields; every handler returns    *)
(* the updated negotiator together with the bytes it answers with.         *)
(* ----------------------------------------------------------------------- *)

TelnetNegotiator(tt, w, h) ==
    [terminal_type |-> tt, window_width |-> w, window_height |-> h,
     our_options |-> EmptyDict, their_options |-> EmptyDict]

option_handlers == {TERMINAL_TYPE, NAWS}

(* should_accept_option testing is_supported-like membership of the whole  *)
(* option enumeration instead of the two policy lists                      *)
should_accept_option_any_known(option) ==
    option \in {BINARY, ECHO, SGA, STATUS, TERMINAL_TYPE, NAWS, LINEMODE}

should_accept_option(option) ==
    IF option \in get_common_options THEN TRUE
    ELSE option \in get_advanced_options

(* update_option_state that files WILL/WONT under our_options as well *)
update_option_state_one_map(neg, option, cmd, enabled) ==
    [neg EXCEPT !.our_options = DictSet(@, option, enabled)]

(* update_option_state that records every command in both mappings *)
update_option_state_both_maps(neg, option, cmd, enabled) ==
    [neg EXCEPT !.our_options = DictSet(@, option, enabled),
                !.their_options = DictSet(@, option, enabled)]

update_option_state(neg, option, cmd, enabled) ==
    IF cmd \in {DO, DONT}
    THEN [neg EXCEPT !.our_options = DictSet(@, option, enabled)]
    ELSE [neg EXCEPT !.their_options = DictSet(@, option, enabled)]

handle_terminal_type(neg, option, cmd, data) ==
    IF cmd = DO
    THEN [neg |-> [neg EXCEPT !.our_options = DictSet(@, option, TRUE)],
          response |-> create_command(WILL, option)]
    ELSE IF cmd = SB /\ Len(data) > 0 /\ data[1] = 1
    THEN [neg |-> neg,
          response |-> create_subnegotiation(option, <<0>> \o neg.terminal_type)]
    ELSE [neg |-> neg, response |-> <<>>]

(* send_window_size packing each 16-bit value low byte first *)
send_window_size_little_endian(neg) ==
    create_subnegotiation(NAWS,
        <<neg.window_width % 256, (neg.window_width \div 256) % 256,
          neg.window_height % 256, (neg.window_height \div 256) % 256>>)

send_window_size(neg) ==
    create_subnegotiation(NAWS,
        <<(neg.window_width \div 256) % 256, neg.window_width % 256,
          (neg.window_height \div 256) % 256, neg.window_height % 256>>)

handle_window_size(neg, option, cmd, data) ==
    IF cmd = DO
    THEN LET n2 == [neg EXCEPT !.our_options = DictSet(@, option, TRUE)]
         IN  [neg |-> n2,
              response |-> create_command(WILL, option) \o send_window_size(n2)]
    ELSE [neg |-> neg, response |-> <<>>]

call_option_handler(neg, option, cmd, data) ==
    IF option = TERMINAL_TYPE
    THEN handle_terminal_type(neg, option, cmd, data)
    ELSE handle_window_size(neg, option, cmd, data)

handle_negotiation(neg, cmd, option) ==
    IF option \in option_handlers
    THEN call_option_handler(neg, option, cmd, <<>>)
    ELSE IF cmd \in {DO, WILL}
    THEN IF should_accept_option(option)
         THEN [neg |-> update_option_state(neg, option, cmd, TRUE),
               response |-> accept(cmd, option)]
         ELSE [neg |-> update_option_state(neg, option, cmd, FALSE),
               response |-> reject(cmd, option)]
    ELSE [neg |-> update_option_state(neg, option, cmd, FALSE),
          response |-> accept(cmd, option)]

handle_subnegotiation(neg, option, data) ==
    IF option \in option_handlers /\ Len(data) > 0
    THEN call_option_handler(neg, option, SB, data)
    ELSE [neg |-> neg, response |-> <<>>]

(* The value a state handler returns beside the parser fields: a telnet    *)
(* response (bytes), a data byte (int) or None.  `emit` holds the data     *)
(* byte, if any, and `response` the bytes, empty for None.                 *)
StepResult(neg, state, cmd, opt, subneg_option, subneg_data, response, emit) ==
    [neg |-> neg, state |-> state, cmd |-> cmd, opt |-> opt,
     subneg_option |-> subneg_option, subneg_data |-> subneg_data,
     response |-> response, emit |-> emit]

(* process_data_state that takes every byte of the command range (SE and  *)
(* above) for the start of a command and drops it                          *)
process_data_state_command_range(neg, byte, cmd, opt, subneg_option, subneg_data) ==
    IF byte = IAC
    THEN StepResult(neg, ParserState_IAC, cmd, opt, subneg_option, subneg_data, <<>>, <<>>)
    ELSE IF byte >= SE
    THEN StepResult(neg, ParserState_DATA, cmd, opt, subneg_option, subneg_data, <<>>, <<>>)
    ELSE StepResult(neg, ParserState_DATA, cmd, opt, subneg_option, subneg_data, <<>>, <<byte>>)

process_data_state(neg, byte, cmd, opt, subneg_option, subneg_data) ==
    IF byte = IAC
    THEN StepResult(neg, ParserState_IAC, cmd, opt, subneg_option, subneg_data, <<>>, <<>>)
    ELSE StepResult(neg, ParserState_DATA, cmd, opt, subneg_option, subneg_data, <<>>, <<byte>>)

(* process_iac_state that drops the second IAC of an escaped pair *)
process_iac_state_drops_escaped(neg, byte, cmd, opt, subneg_option, subneg_data) ==
    IF byte = SB
    THEN StepResult(neg, ParserState_SUBNEG, cmd, opt, subneg_option, <<>>, <<>>, <<>>)
    ELSE IF is_negotiation(byte)
    THEN StepResult(neg, ParserState_COMMAND, byte, opt, subneg_option, subneg_data, <<>>, <<>>)
    ELSE StepResult(neg, ParserState_DATA, cmd, opt, subneg_option, subneg_data, <<>>, <<>>)

(* process_iac_state that passes an unknown command byte on as data *)
process_iac_state_passes_unknown(neg, byte, cmd, opt, subneg_option, subneg_data) ==
    IF byte = SB
    THEN StepResult(neg, ParserState_SUBNEG, cmd, opt, subneg_option, <<>>, <<>>, <<>>)
    ELSE IF is_negotiation(byte)
    THEN StepResult(neg, ParserState_COMMAND, byte, opt, subneg_option, subneg_data, <<>>, <<>>)
    ELSE StepResult(neg, ParserState_DATA, cmd, opt, subneg_option, subneg_data, <<>>, <<byte>>)

process_iac_state(neg, byte, cmd, opt, subneg_option, subneg_data) ==
    IF byte = IAC
    THEN StepResult(neg, ParserState_DATA, cmd, opt, subneg_option, subneg_data, <<>>, <<byte>>)
    ELSE IF byte = SB
    THEN StepResult(neg, ParserState_SUBNEG, cmd, opt, subneg_option, <<>>, <<>>, <<>>)
    ELSE IF is_negotiation(byte)
    THEN StepResult(neg, ParserState_COMMAND, byte, opt, subneg_option, subneg_data, <<>>, <<>>)
    ELSE StepResult(neg, ParserState_DATA, cmd, opt, subneg_option, subneg_data, <<>>, <<>>)

process_command_state(neg, byte, cmd, subneg_option, subneg_data) ==
    LET r == handle_negotiation(neg, cmd, byte)
    IN  StepResult(r.neg, ParserState_DATA, cmd, byte, subneg_option, subneg_data,
                   r.response, <<>>)

process_subneg_state(neg, byte, cmd, opt, subneg_option, subneg_data) ==
    IF byte = IAC
    THEN StepResult(neg, ParserState_SUBNEG_IAC, cmd, opt, subneg_option, subneg_data, <<>>, <<>>)
    ELSE IF Len(subneg_data) = 0
    THEN StepResult(neg, ParserState_SUBNEG, cmd, opt, byte, subneg_data, <<>>, <<>>)
    ELSE StepResult(neg, ParserState_SUBNEG, cmd, opt, subneg_option,
                    Append(subneg_data, byte), <<>>, <<>>)

process_subneg_iac_state(neg, byte, cmd, opt, subneg_option, subneg_data) ==
    IF byte = SE
    THEN LET r == handle_subnegotiation(neg, subneg_option, subneg_data)
         IN  StepResult(r.neg, ParserState_DATA, cmd, opt, subneg_option, subneg_data,
                        r.response, <<>>)
    ELSE StepResult(neg, ParserState_SUBNEG, cmd, opt, subneg_option,
                    subneg_data \o <<IAC, byte>>, <<>>, <<>>)

process_byte(neg, byte, state, cmd, opt, subneg_option, subneg_data) ==
    CASE state = ParserState_DATA ->
            process_data_state(neg, byte, cmd, opt, subneg_option, subneg_data)
      [] state = ParserState_IAC ->
            process_iac_state(neg, byte, cmd, opt, subneg_option, subneg_data)
      [] state = ParserState_COMMAND ->
            process_command_state(neg, byte, cmd, subneg_option, subneg_data)
      [] state = ParserState_SUBNEG ->
            process_subneg_state(neg, byte, cmd, opt, subneg_option, subneg_data)
      [] state = ParserState_SUBNEG_IAC ->
            process_subneg_iac_state(neg, byte, cmd, opt, subneg_option, subneg_data)
      [] OTHER ->
            StepResult(neg, ParserState_DATA, cmd, opt, subneg_option, subneg_data, <<>>, <<>>)

(* One iteration of handle_command's `for byte in data` loop: the         *)
(* accumulator after _process_byte returned r.                             *)
loop_iteration(acc, r) ==
    [neg |-> r.neg, state |-> r.state, cmd |-> r.cmd, opt |-> r.opt,
     subneg_option |-> r.subneg_option, subneg_data |-> r.subneg_data,
     processed |-> acc.processed \o r.emit,
     responses |-> IF Len(r.response) > 0
                   THEN Append(acc.responses, r.response)
                   ELSE acc.responses]

(* The `for byte in data` loop of handle_command from index i on: acc      *)
(* carries the negotiator, the loop's local parser fields, and the         *)
(* `processed` and `responses` collected so far.  The accumulator of the   *)
(* next iteration is bound as a value before the loop goes on.             *)
RECURSIVE handle_command_loop(_, _, _)
handle_command_loop(data, i, acc) ==
    IF i > Len(data) THEN acc
    ELSE CHOOSE final \in
            { handle_command_loop(data, i + 1, next_acc) :
                next_acc \in
                  { loop_iteration(a, r) :
                      a \in {acc},
                      r \in { process_byte(b.neg, data[i], b.state, b.cmd, b.opt,
                                           b.subneg_option, b.subneg_data) : b \in {acc} } } } :
            TRUE

(* handle_command(data): the parser fields are locals, set to DATA/0/0/0/  *)
(* empty at every call.  Returns the negotiator after the call, the        *)
(* processed data and the list of responses.                               *)
handle_command(neg, data) ==
    IF Len(data) = 0
    THEN [neg |-> neg, processed |-> <<>>, responses |-> <<>>, state |-> ParserState_DATA]
    ELSE LET r == handle_command_loop(data, 1,
                    [neg |-> neg, state |-> ParserState_DATA, cmd |-> 0, opt |-> 0,
                     subneg_option |-> 0, subneg_data |-> <<>>,
                     processed |-> <<>>, responses |-> <<>>])
         IN  [neg |-> r.neg, processed |-> r.processed, responses |-> r.responses,
              state |-> r.state]

get_initial_negotiation_echo_first ==
    create_command(WONT, ECHO) \o create_command(WILL, SGA) \o create_command(DO, SGA)
        \o create_command(WILL, TERMINAL_TYPE) \o create_command(WILL, NAWS)

get_initial_negotiation ==
    create_command(WILL, SGA) \o create_command(DO, SGA) \o create_command(WONT, ECHO)
        \o create_command(WILL, TERMINAL_TYPE) \o create_command(WILL, NAWS)

(* the responses joined last first *)
RECURSIVE JoinBytes_reversed(_)
JoinBytes_reversed(list) ==
    IF Len(list) = 0 THEN <<>>
    ELSE JoinBytes_reversed(Tail(list)) \o Head(list)

(* b"".join(responses) *)
RECURSIVE JoinBytes(_)
JoinBytes(list) ==
    IF Len(list) = 0 THEN <<>> ELSE Head(list) \o JoinBytes(Tail(list))

(* data.count(IAC_BYTE) *)
RECURSIVE CountIAC(_)
CountIAC(data) ==
    IF Len(data) = 0 THEN 0
    ELSE (IF Head(data) = IAC_BYTE THEN 1 ELSE 0) + CountIAC(Tail(data))

(* write()'s single-pass escape: view is the pre-sized zeroed buffer, i and *)
(* j the 0-based read and write positions.                                 *)
RECURSIVE write_escape_loop(_, _, _, _)
write_escape_loop(data, view, i, j) ==
    IF ~(i < Len(data)) THEN view
    ELSE LET b == data[i + 1]
             v1 == [view EXCEPT ![j + 1] = b]
         IN  IF b = IAC_BYTE
             THEN write_escape_loop(data, [v1 EXCEPT ![j + 2] = IAC_BYTE], i + 1, j + 2)
             ELSE write_escape_loop(data, v1, i + 1, j + 1)

(* write() whose fast path also takes data that ends with IAC unescaped *)
write_payload_fast_path_tail(data) ==
    IF CountIAC(data) = 0 \/ (Len(data) > 1 /\ CountIAC(SubSeq(data, 1, Len(data) - 1)) = 0)
    THEN data
    ELSE write_escape_loop(data, [k \in 1..(Len(data) + CountIAC(data)) |-> 0], 0, 0)

(* The bytes write(data) hands to StreamWriter.write *)
write_payload(data) ==
    IF CountIAC(data) = 0
    THEN data
    ELSE write_escape_loop(data, [k \in 1..(Len(data) + CountIAC(data)) |-> 0], 0, 0)

(* ----------------------------------------------------------------------- *)
(* State                                                                   *)
(* ----------------------------------------------------------------------- *)

VARIABLES
    negotiator,     \* the TelnetNegotiator object (the client's, in SpecClient)
    negBefore,      \* the negotiator as it was when the last handle_command began
    callData,       \* the argument of the last handle_command call
    retData,        \* the processed data the last call returned
    retResponses,   \* the responses the last call returned
    fed,            \* all chunks passed to handle_command so far, concatenated
    fedData,        \* all processed data returned so far, concatenated
    fedResponses,   \* all responses returned so far, in order
    nCalls          \* number of handle_command calls so far

negVars == <<negotiator, negBefore, callData, retData, retResponses,
             fed, fedData, fedResponses, nCalls>>

VARIABLES
    nOpened,        \* number of TCP streams opened so far; they are named 1..nOpened
    openStreams,    \* the streams that are open (opened and not closed)
    wire            \* every StreamWriter.write so far: [stream, payload], in order

netVars == <<nOpened, openStreams, wire>>

VARIABLES
    reader,         \* AsyncTelnetClient.reader: None or a stream
    writer,         \* AsyncTelnetClient.writer: None or a stream
    pc,             \* where the task that uses the client is suspended
    connectResult,  \* how the last connect() ended
    attemptStream,  \* the stream the current or last connect() opened, or None
    writeArg,       \* the argument of the last write()
    writeDone,      \* the last write() reached StreamWriter.write
    nWrites         \* number of write() calls so far

VARIABLES
    closeResult,    \* how the last close() ended
    closeError,     \* the last close handshake raised and close() logged it
    nCloses         \* number of close() calls so far

closeVars == <<closeResult, closeError, nCloses>>

VARIABLES
    readResult,     \* how the last read() ended
    readChunk,      \* the raw bytes the last read() got from the stream
    readData,       \* the bytes the last read() returned
    nReads          \* number of read() calls so far, read_until's included

readVars == <<readResult, readChunk, readData, nReads>>

VARIABLES
    expected,       \* read_until's pattern argument
    buffer,         \* read_until's buffer[:pos]: the user data accumulated
    untilResult,    \* how the last read_until() ended
    untilData,      \* the bytes the last read_until() returned
    chunks,         \* the chunks the current or last read_until() appended
    nUntils         \* number of read_until() calls so far

untilVars == <<expected, buffer, untilResult, untilData, chunks, nUntils>>

VARIABLES
    scope           \* where the task is relative to `async with client:`

callVars == <<closeVars, readVars, untilVars, scope>>

clientVars == <<reader, writer, pc, connectResult, attemptStream,
                writeArg, writeDone, nWrites, callVars>>

VARIABLES
    current_reader, \* AsyncProtocolDetector._current_reader: None or a stream
    current_writer, \* AsyncProtocolDetector._current_writer: None or a stream
    dpc,            \* where the task that runs detect() is suspended
    detResult,      \* the DetectionResult the last detect() returned
    detOpened,      \* the streams the current or last detect() opened
    nDetects,       \* number of detect() calls so far
    passive_read,   \* how _passive_detection's read ended in this detect()
    initial_data,   \* _passive_detection's initial_data, when the read returned
    passive_result  \* detect()'s `result`: what _passive_detection returned

passiveVars == <<passive_read, initial_data, passive_result>>

VARIABLES
    raised,         \* the step of this detect() whose await raised an error
    handoff,        \* what the last get_client() handed back
    detection_result, \* the protocol of the result the last get_client() was given
    nGets           \* number of get_client() calls so far

handoffVars == <<handoff, detection_result, nGets>>

(* cli/console.py: the module's progress state *)
VARIABLES
    live_started,   \* live_display.is_started
    active_tasks,   \* _active_tasks: task id -> the Progress task it names
    progress_tasks, \* progress.tasks: total and completed of every task added
    console_call    \* the last console operation: its name, id and outcome

consoleVars == <<live_started, active_tasks, progress_tasks, console_call>>

(* tests/connect.py: one run of test_connections *)
VARIABLES
    hosts,            \* test_connections' hosts argument
    ports,            \* test_connections' ports argument
    max_concurrency,  \* test_connections' max_concurrency argument
    hpc,              \* where the task that runs test_connections is
    semaphore,        \* the Semaphore's value: the permits left
    progress_id,      \* test_connections' task_id: the id create_progress returned
    tasks,            \* the connection_task coroutines given to gather, in order
    results,          \* the list test_connections returned
    completions       \* number of complete_progress calls of this run

harnessVars == <<hosts, ports, max_concurrency, hpc, semaphore, progress_id, tasks,
                 results, completions>>

(* negotiate.py: handle_command's loop, one byte at a time *)
VARIABLES
    parser,         \* the loop's locals state, cmd, opt, subneg_option, subneg_data
    pstep,          \* the last iteration: its byte, the state before, what it returned
    subneg_seen,    \* the bytes consumed since the last IAC SB was read
    nBytes          \* number of bytes processed so far

parserVars == <<parser, pstep, subneg_seen, nBytes>>

(* client.py: interact() and its background reader task *)
VARIABLES
    ipc,            \* where the task that runs interact() is
    rpc,            \* where the reader task (_interactive_reader) is
    idle_count,     \* _interactive_reader's idle_count
    cancel_sent,    \* read_task.cancel() has been called
    ending,         \* how interact() will end once the reader task is awaited
    frames,         \* the payloads handed to writer.write since the task was spawned
    wire_base,      \* the length of the wire when the task was spawned
    reader_step,    \* what the reader's last read() returned: "none", "empty", "data"
    nLines,         \* number of input lines sent
    nChunks         \* number of non-empty chunks the reader task has read

interactVars == <<ipc, rpc, idle_count, cancel_sent, ending, frames, wire_base,
                  reader_step, nLines, nChunks>>

(* two negotiators that feed each other's replies into handle_command *)
VARIABLES
    xpc,            \* the exchange: "idle" or "started"
    peers,          \* the TelnetNegotiator of peer "a" and of peer "b"
    inbox           \* per peer, the frames sent to it and not yet read, in order

exchangeVars == <<xpc, peers, inbox>>

(* client.py: read_until's pre-allocated buffer, with its sizes *)
VARIABLES
    bpc,            \* read_until: "idle", "loop", "returned", "timeout", "raised"
    buffer_size,    \* len(buffer)
    pos,            \* read_until's pos
    held,           \* the lengths of the chunks that lie in buffer[:pos], in order
    nCopied         \* number of chunks copied into the buffer

bufferVars == <<bpc, buffer_size, pos, held, nCopied>>

lateVars == <<interactVars, exchangeVars, bufferVars>>

toolVars == <<consoleVars, harnessVars, parserVars, lateVars>>

auxVars == <<handoffVars, toolVars>>

detVars == <<current_reader, current_writer, dpc, detResult, detOpened, nDetects,
             passiveVars, raised, auxVars>>

vars == <<negVars, netVars, clientVars, detVars>>

(* the Telnet client, the network and the detector *)
mainVars == <<negVars, netVars, clientVars, current_reader, current_writer, dpc,
              detResult, detOpened, nDetects, passiveVars, raised, handoffVars>>

(* ----------------------------------------------------------------------- *)
(* Bounds and input sets                                                   *)
(* ----------------------------------------------------------------------- *)

MaxCalls == 2
MaxFed == 3
MaxChunkLen == 3
MaxStreams == 2
MaxWrites == 1
MaxDetects == 2
MaxCloses == 2
MaxReads == 3
MaxUntils == 1
MaxGets == 1

VT100 == <<86, 84, 49, 48, 48>>
ANSI == <<97, 110, 115, 105>>

(* Terminal profiles a negotiator is constructed with: the defaults, and   *)
(* two others with 16-bit sizes whose high and low bytes differ.           *)
Profiles ==
    { [tt |-> VT100, w |-> 132, h |-> 100],
      [tt |-> ANSI, w |-> 300, h |-> 65535],
      [tt |-> <<>>, w |-> 0, h |-> 513] }

DefaultProfile == [tt |-> VT100, w |-> 132, h |-> 100]

NegotiationCommands == {DO, DONT, WILL, WONT}

ModelOptions == {BINARY, ECHO, SGA, STATUS, TERMINAL_TYPE, NAWS, LINEMODE}

DoThenSendTerminalType ==
    <<IAC, DO, TERMINAL_TYPE, IAC, SB, TERMINAL_TYPE, 1, IAC, SE>>

(* Chunks of whole frames: every negotiation command for every modelled    *)
(* option, SEND sub-negotiations, the DO-then-SEND scenario and plain data *)
FrameChunks ==
    { <<IAC, c, o>> : c \in NegotiationCommands, o \in ModelOptions }
        \cup { <<IAC, SB, o, 1, IAC, SE>> : o \in {TERMINAL_TYPE, NAWS} }
        \cup { DoThenSendTerminalType, <<72, 105>>, <<>> }

(* The bytes of the arbitrary chunks: the commands, and two option codes   *)
(* that are plain data outside a command.                                 *)
ByteAlphabet == {IAC, SB, SE, DO, WILL, ECHO, TERMINAL_TYPE}

RECURSIVE ByteStrings(_)
ByteStrings(n) ==
    IF n = 0 THEN { <<>> }
    ELSE LET shorter == ByteStrings(n - 1)
         IN  shorter \cup { Append(s, b) : s \in { t \in shorter : Len(t) = n - 1 },
                                            b \in ByteAlphabet }

ByteChunks == ByteStrings(MaxChunkLen)

(* ----------------------------------------------------------------------- *)
(* Negotiator: construction and the handle_command operation               *)
(* ----------------------------------------------------------------------- *)

InitNegotiator(profiles) ==
    /\ negotiator \in { TelnetNegotiator(p.tt, p.w, p.h) : p \in profiles }
    /\ negBefore = negotiator
    /\ callData = <<>>
    /\ retData = <<>>
    /\ retResponses = <<>>
    /\ fed = <<>>
    /\ fedData = <<>>
    /\ fedResponses = <<>>
    /\ nCalls = 0

HandleCommand(chunk) ==
    LET r == handle_command(negotiator, chunk)
    IN  /\ negotiator' = r.neg
        /\ negBefore' = negotiator
        /\ callData' = chunk
        /\ retData' = r.processed
        /\ retResponses' = r.responses
        /\ fed' = fed \o chunk
        /\ fedData' = fedData \o r.processed
        /\ fedResponses' = fedResponses \o r.responses
        /\ nCalls' = nCalls + 1

(* The client's call of handle_command: the negotiator changes and the     *)
(* call's argument and results are kept; the record of the whole byte      *)
(* stream is not the client's.                                             *)
ParseChunk(chunk) ==
    LET r == handle_command(negotiator, chunk)
    IN  /\ negotiator' = r.neg
        /\ negBefore' = negotiator
        /\ callData' = chunk
        /\ retData' = r.processed
        /\ retResponses' = r.responses
        /\ UNCHANGED <<fed, fedData, fedResponses, nCalls>>

(* A server sends whole frames, one chunk per read. *)
FeedFrame ==
    /\ nCalls < MaxCalls
    /\ \E chunk \in FrameChunks : HandleCommand(chunk)
    /\ UNCHANGED <<netVars, clientVars, detVars>>

(* A server's byte stream arrives split into arbitrary chunks, empty ones  *)
(* included: at most MaxFed calls and MaxFed bytes in all.                 *)
FeedBytes ==
    /\ nCalls < MaxFed
    /\ \E chunk \in ByteChunks :
          /\ Len(fed) + Len(chunk) <= MaxFed
          /\ HandleCommand(chunk)
    /\ UNCHANGED <<netVars, clientVars, detVars>>

(* ----------------------------------------------------------------------- *)
(* The network: asyncio streams                                            *)
(* ----------------------------------------------------------------------- *)

None == 0

InitNet ==
    /\ nOpened = 0
    /\ openStreams = {}
    /\ wire = <<>>

(* What a server sends in the negotiation grace window: nothing before it  *)
(* closes (EOF), plain text, or negotiation frames.                        *)
ConnectChunks ==
    { <<>>, <<72, 105>>, <<IAC, DO, SGA>>,
      <<IAC, DO, TERMINAL_TYPE, IAC, WILL, ECHO>> }

(* What a server sends to one read(): nothing before it closes (EOF),      *)
(* text, a negotiation frame alone or inside text, an escaped 0xFF.        *)
ReadChunks ==
    { <<>>, <<72>>, <<105>>, <<IAC, DO, TERMINAL_TYPE>>,
      <<72, IAC, DO, SGA, IAC, WILL, ECHO, 105>>, <<IAC, IAC>> }

(* read_until's patterns: regular expressions that are literal text, the   *)
(* empty one, and one that is not UTF-8.                                   *)
Patterns == { <<>>, <<72, 105>>, <<254>> }

(* The byte strings an application writes. *)
WriteData ==
    { <<>>, <<72, 105>>, <<IAC>>, <<IAC, IAC>>, <<65, IAC>>, <<IAC, 65, IAC, 66>>,
      <<IAC, DO, ECHO>>, <<IAC, SB, 65, IAC, SE>> }

(* ----------------------------------------------------------------------- *)
(* clients/telnet/client.py: AsyncTelnetClient                             *)
(* The task that uses the client is at pc "idle" between calls and at a    *)
(* named await inside a call.  An await inside connect()'s timeout scope   *)
(* can end with a result, with TimeoutError / ConnectionRefusedError /     *)
(* OSError (all caught by connect, which then returns False), or with the  *)
(* task's cancellation (CancelledError, which connect does not catch).     *)
(* ----------------------------------------------------------------------- *)

InitClient ==
    /\ reader = None
    /\ writer = None
    /\ pc = "idle"
    /\ connectResult = "none"
    /\ attemptStream = None
    /\ writeArg = <<>>
    /\ writeDone = FALSE
    /\ nWrites = 0
    /\ closeResult = "none"
    /\ closeError = FALSE
    /\ nCloses = 0
    /\ readResult = "none"
    /\ readChunk = <<>>
    /\ readData = <<>>
    /\ nReads = 0
    /\ expected = <<>>
    /\ buffer = <<>>
    /\ untilResult = "none"
    /\ untilData = <<>>
    /\ chunks = <<>>
    /\ nUntils = 0
    /\ scope = "outside"

is_connected == reader # None /\ writer # None

StreamWrite(stream, payload) == wire' = Append(wire, [stream |-> stream, payload |-> payload])

(* connect() without its first statement: it opens a stream even when     *)
(* the client is connected                                                 *)
ConnectCall_reconnects ==
    /\ pc = "idle"
    /\ nOpened < MaxStreams
    /\ pc' = "connect_open"
    /\ connectResult' = "pending"
    /\ attemptStream' = None
    /\ UNCHANGED <<reader, writer, writeArg, writeDone, nWrites, negVars, netVars>>
    /\ UNCHANGED <<callVars, detVars>>

(* connect(): `if self.is_connected: return True`, else enter the timeout  *)
(* scope and await open_connection.                                        *)
ConnectCall ==
    /\ pc = "idle"
    /\ IF is_connected
       THEN /\ connectResult' = "true"
            /\ attemptStream' = None
            /\ UNCHANGED pc
       ELSE /\ nOpened < MaxStreams
            /\ pc' = "connect_open"
            /\ connectResult' = "pending"
            /\ attemptStream' = None
    /\ UNCHANGED <<reader, writer, writeArg, writeDone, nWrites, negVars, netVars>>
    /\ UNCHANGED <<callVars, detVars>>

(* connect() returns to its caller: the application (pc "idle"),           *)
(* __aenter__, the detector's _get_telnet_client or interact(), which go   *)
(* on from it.                                                             *)
connect_returns ==
    pc' = IF scope = "entering" THEN "aenter_connected"
          ELSE IF handoff = "connecting" THEN "get_client_connected"
          ELSE IF ipc = "connecting" THEN "interact_connected"
          ELSE "idle"

(* connect()'s handler `except (TimeoutError, ConnectionRefusedError,      *)
(* OSError): log; return False`: nothing else is done on this path.        *)
connect_except_return_false ==
    /\ connect_returns
    /\ connectResult' = "false"
    /\ UNCHANGED <<reader, writer, attemptStream>>

(* CancelledError is a BaseException: it passes through connect()'s        *)
(* handler and leaves the client as it is.                                 *)
connect_cancelled ==
    /\ connect_returns
    /\ connectResult' = "cancelled"
    /\ UNCHANGED <<reader, writer, attemptStream>>

(* open_connection fails or times out: no stream exists. *)
ConnectOpenFails ==
    /\ pc = "connect_open"
    /\ connect_except_return_false
    /\ UNCHANGED <<writeArg, writeDone, nWrites, negVars, netVars>>
    /\ UNCHANGED <<callVars, detVars>>

ConnectOpenCancelled ==
    /\ pc = "connect_open"
    /\ connect_cancelled
    /\ UNCHANGED <<writeArg, writeDone, nWrites, negVars, netVars>>
    /\ UNCHANGED <<callVars, detVars>>

(* open_connection returns: reader and writer are assigned, the initial    *)
(* negotiation is written, and connect awaits the drain.                   *)
ConnectOpened ==
    /\ pc = "connect_open"
    /\ nOpened' = nOpened + 1
    /\ openStreams' = openStreams \cup {nOpened + 1}
    /\ reader' = nOpened + 1
    /\ writer' = nOpened + 1
    /\ attemptStream' = nOpened + 1
    /\ StreamWrite(nOpened + 1, get_initial_negotiation)
    /\ pc' = "connect_drain"
    /\ UNCHANGED <<connectResult, writeArg, writeDone, nWrites, negVars>>
    /\ UNCHANGED <<callVars, detVars>>

(* An await of connect() after the stream was opened ends with an error or *)
(* the timeout scope expires: drain (connect_drain), the grace sleep       *)
(* (connect_sleep), the read (connect_read; a ConnectionResetError is not  *)
(* the TimeoutError _complete_negotiation catches), the reply drain.       *)
ConnectFailsAfterOpen ==
    /\ pc \in {"connect_drain", "connect_sleep", "connect_read", "connect_reply_drain"}
    /\ connect_except_return_false
    /\ UNCHANGED <<writeArg, writeDone, nWrites, negVars, netVars>>
    /\ UNCHANGED <<callVars, detVars>>

ConnectCancelledAfterOpen ==
    /\ pc \in {"connect_drain", "connect_sleep", "connect_read", "connect_reply_drain"}
    /\ connect_cancelled
    /\ UNCHANGED <<writeArg, writeDone, nWrites, negVars, netVars>>
    /\ UNCHANGED <<callVars, detVars>>

(* drain() returns; _complete_negotiation begins: sleep(0.1). *)
ConnectDrained ==
    /\ pc = "connect_drain"
    /\ pc' = "connect_sleep"
    /\ UNCHANGED <<reader, writer, connectResult, attemptStream,
                   writeArg, writeDone, nWrites, negVars, netVars>>
    /\ UNCHANGED <<callVars, detVars>>

(* the grace sleep ends; wait_for(reader.read(1024), 1.0) begins. *)
ConnectSlept ==
    /\ pc = "connect_sleep"
    /\ pc' = "connect_read"
    /\ UNCHANGED <<reader, writer, connectResult, attemptStream,
                   writeArg, writeDone, nWrites, negVars, netVars>>
    /\ UNCHANGED <<callVars, detVars>>

connect_return_true ==
    /\ connect_returns
    /\ connectResult' = "true"

(* The read's own 1 s timeout: caught by _complete_negotiation. *)
ConnectReadTimesOut ==
    /\ pc = "connect_read"
    /\ connect_return_true
    /\ UNCHANGED <<reader, writer, attemptStream,
                   writeArg, writeDone, nWrites, negVars, netVars>>
    /\ UNCHANGED <<callVars, detVars>>

(* The read returns data: empty data is skipped; other data goes through   *)
(* _process_negotiation, which writes the joined responses, if any, in one *)
(* write and awaits the drain.                                             *)
ConnectReadReturns ==
    /\ pc = "connect_read"
    /\ \E data \in ConnectChunks :
          IF Len(data) = 0
          THEN /\ connect_return_true
               /\ UNCHANGED <<negVars, netVars>>
          ELSE /\ ParseChunk(data)
               /\ LET responses == handle_command(negotiator, data).responses
                  IN  IF Len(responses) > 0 /\ writer # None
                      THEN /\ StreamWrite(writer, JoinBytes(responses))
                           /\ pc' = "connect_reply_drain"
                           /\ UNCHANGED <<connectResult, nOpened, openStreams>>
                      ELSE /\ connect_return_true
                           /\ UNCHANGED netVars
    /\ UNCHANGED <<reader, writer, attemptStream, writeArg, writeDone, nWrites>>
    /\ UNCHANGED <<callVars, detVars>>

ConnectReplyDrained ==
    /\ pc = "connect_reply_drain"
    /\ connect_return_true
    /\ UNCHANGED <<reader, writer, attemptStream,
                   writeArg, writeDone, nWrites, negVars, netVars>>
    /\ UNCHANGED <<callVars, detVars>>

(* close() returns to its caller: the application or __aexit__, which      *)
(* returns with it and leaves the scope.                                   *)
close_returns ==
    /\ pc' = "idle"
    /\ scope' = IF scope = "exiting" THEN "exited" ELSE scope

(* close()'s `finally: self.writer = None; self.reader = None`, reader     *)
(* mutated to keep its value in close_finally_writer_only                  *)
close_finally_writer_only ==
    /\ writer' = None
    /\ UNCHANGED reader

close_finally ==
    /\ writer' = None
    /\ reader' = None

(* close(), called by the application (caller "inside", "outside", ...)    *)
(* or by __aexit__ (caller "exiting"): `if self.writer:` is false: nothing *)
(* is done.  Else the try block begins: writer.close() closes the stream   *)
(* and close() awaits wait_closed().                                       *)
close_entry(caller) ==
    /\ nCloses < MaxCloses
    /\ nCloses' = nCloses + 1
    /\ IF writer # None
       THEN /\ openStreams' = openStreams \ {writer}
            /\ pc' = "close_wait"
            /\ closeResult' = "pending"
            /\ closeError' = FALSE
            /\ scope' = caller
       ELSE /\ closeResult' = "returned"
            /\ pc' = "idle"
            /\ scope' = IF caller = "exiting" THEN "exited" ELSE caller
            /\ UNCHANGED <<openStreams, closeError>>
    /\ UNCHANGED <<reader, writer, connectResult, attemptStream, writeArg, writeDone,
                   nWrites, nOpened, wire, negVars, readVars, untilVars, detVars>>

CloseCall ==
    /\ pc = "idle"
    /\ close_entry(scope)

(* wait_closed() returns; the finally clause runs and close() returns. *)
CloseWaited ==
    /\ pc = "close_wait"
    /\ close_finally
    /\ closeError' = FALSE
    /\ closeResult' = "returned"
    /\ close_returns
    /\ UNCHANGED <<connectResult, attemptStream, writeArg, writeDone, nWrites, nCloses,
                   netVars, negVars, readVars, untilVars, detVars>>

(* wait_closed() raises an Exception: `except Exception` logs it, the      *)
(* finally clause runs and close() returns.                                *)
CloseWaitRaises ==
    /\ pc = "close_wait"
    /\ close_finally
    /\ closeError' = TRUE
    /\ closeResult' = "returned"
    /\ close_returns
    /\ UNCHANGED <<connectResult, attemptStream, writeArg, writeDone, nWrites, nCloses,
                   netVars, negVars, readVars, untilVars, detVars>>

(* The task is cancelled in wait_closed(): CancelledError is not an        *)
(* Exception, so only the finally clause runs and the cancellation leaves  *)
(* close().                                                                *)
CloseCancelled ==
    /\ pc = "close_wait"
    /\ close_finally
    /\ closeResult' = "cancelled"
    /\ close_returns
    /\ UNCHANGED <<connectResult, attemptStream, writeArg, writeDone, nWrites, nCloses,
                   closeError, netVars, negVars, readVars, untilVars, detVars>>

(* read() returns to its caller: the application or read_until's loop. *)
read_returns ==
    pc' = IF untilResult = "running" THEN "until_chunk" ELSE "idle"

(* read(): `if not self.reader: return b""`, else await the stream's read  *)
(* under wait_for.                                                         *)
read_entry ==
    /\ nReads < MaxReads
    /\ nReads' = nReads + 1
    /\ IF reader = None
       THEN /\ readResult' = "not_connected"
            /\ readData' = <<>>
            /\ read_returns
            /\ UNCHANGED readChunk
       ELSE /\ readResult' = "pending"
            /\ pc' = "read_wait"
            /\ UNCHANGED <<readChunk, readData>>
    /\ UNCHANGED <<reader, writer, connectResult, attemptStream, writeArg, writeDone,
                   nWrites, closeVars, scope, negVars, netVars, detVars>>

ReadCall ==
    /\ pc = "idle"
    /\ read_entry
    /\ UNCHANGED untilVars

(* wait_for's deadline expires: `except TimeoutError: return b""`. *)
ReadTimesOut ==
    /\ pc = "read_wait"
    /\ readResult' = "timeout"
    /\ readData' = <<>>
    /\ read_returns
    /\ UNCHANGED <<reader, writer, connectResult, attemptStream, writeArg, writeDone,
                   nWrites, closeVars, scope, readChunk, nReads, untilVars,
                   negVars, netVars, detVars>>

(* reader.read returns: _process_negotiation returns b"" for empty data;   *)
(* else it runs handle_command, writes the joined responses, if any, in    *)
(* one write and awaits the drain, or returns the processed data at once.  *)
ReadReturns ==
    /\ pc = "read_wait"
    /\ \E data \in ReadChunks :
          /\ readChunk' = data
          /\ IF Len(data) = 0
             THEN /\ readResult' = "returned"
                  /\ readData' = <<>>
                  /\ read_returns
                  /\ UNCHANGED <<negVars, netVars>>
             ELSE /\ ParseChunk(data)
                  /\ LET r == handle_command(negotiator, data)
                     IN  IF Len(r.responses) > 0 /\ writer # None
                         THEN /\ StreamWrite(writer, JoinBytes(r.responses))
                              /\ pc' = "read_reply_drain"
                              /\ UNCHANGED <<readResult, readData, nOpened, openStreams>>
                         ELSE /\ readResult' = "returned"
                              /\ readData' = r.processed
                              /\ read_returns
                              /\ UNCHANGED netVars
    /\ UNCHANGED <<reader, writer, connectResult, attemptStream, writeArg, writeDone,
                   nWrites, closeVars, scope, nReads, untilVars, detVars>>

(* read() that returns nothing when it had replies to write *)
ReadReplyDrained_returns_empty ==
    /\ pc = "read_reply_drain"
    /\ readResult' = "returned"
    /\ readData' = <<>>
    /\ read_returns
    /\ UNCHANGED <<reader, writer, connectResult, attemptStream, writeArg, writeDone,
                   nWrites, closeVars, scope, readChunk, nReads, untilVars,
                   negVars, netVars, detVars>>

(* the drain of the replies returns: read() returns the processed data. *)
ReadReplyDrained ==
    /\ pc = "read_reply_drain"
    /\ readResult' = "returned"
    /\ readData' = retData
    /\ read_returns
    /\ UNCHANGED <<reader, writer, connectResult, attemptStream, writeArg, writeDone,
                   nWrites, closeVars, scope, readChunk, nReads, untilVars,
                   negVars, netVars, detVars>>

(* reader.read or the drain raises something that is not TimeoutError (a   *)
(* reset connection, the task's cancellation): read() raises it, and so    *)
(* does a read_until() that called it.                                     *)
ReadRaises ==
    /\ pc \in {"read_wait", "read_reply_drain"}
    /\ readResult' = "raised"
    /\ untilResult' = IF untilResult = "running" THEN "raised" ELSE untilResult
    /\ pc' = "idle"
    /\ UNCHANGED <<reader, writer, connectResult, attemptStream, writeArg, writeDone,
                   nWrites, closeVars, scope, readChunk, readData, nReads,
                   expected, buffer, untilData, chunks, nUntils,
                   negVars, netVars, detVars>>

(* bytes.decode("utf-8", errors="replace") of ASCII bytes and of bytes     *)
(* that no UTF-8 sequence holds (0xF8..0xFF): each of these becomes U+FFFD *)
decode_utf8_replace(data) ==
    [i \in 1..Len(data) |-> IF data[i] < 128 THEN data[i] ELSE 65533]

contains(data, part) ==
    \E i \in 0..(Len(data) - Len(part)) : SubSeq(data, i + 1, i + Len(part)) = part

(* re.compile(expected decoded).search(buffer decoded), for a pattern      *)
(* without metacharacters: an unanchored search for the pattern's text     *)
pattern_search(pattern, data) ==
    contains(decode_utf8_replace(data), decode_utf8_replace(pattern))

(* read_until(expected): `if not self.reader: return b""`; else the        *)
(* buffer is allocated, the pattern compiled, the deadline computed and    *)
(* the loop begins.                                                        *)
UntilCall ==
    /\ pc = "idle"
    /\ nUntils < MaxUntils
    /\ nUntils' = nUntils + 1
    /\ \E pattern \in Patterns :
          /\ expected' = pattern
          /\ IF reader = None
             THEN /\ untilResult' = "returned"
                  /\ untilData' = <<>>
                  /\ UNCHANGED <<pc, buffer, chunks>>
             ELSE /\ untilResult' = "running"
                  /\ buffer' = <<>>
                  /\ chunks' = <<>>
                  /\ pc' = "until_loop"
                  /\ UNCHANGED untilData
    /\ UNCHANGED <<reader, writer, connectResult, attemptStream, writeArg, writeDone,
                   nWrites, closeVars, scope, readVars, negVars, netVars, detVars>>

(* `while time() < end_time` is true: read(time_limit=min(1.0, remaining)) *)
UntilReads ==
    /\ pc = "until_loop"
    /\ read_entry
    /\ UNCHANGED untilVars

(* `while time() < end_time` is false: raise TimeoutError. *)
UntilDeadline ==
    /\ pc = "until_loop"
    /\ untilResult' = "timeout"
    /\ pc' = "idle"
    /\ UNCHANGED <<reader, writer, connectResult, attemptStream, writeArg, writeDone,
                   nWrites, closeVars, scope, readVars, expected, buffer, untilData,
                   chunks, nUntils, negVars, netVars, detVars>>

(* read_until whose buffer holds the last chunk only *)
UntilChunk_keeps_last_chunk ==
    /\ pc = "until_chunk"
    /\ IF Len(readData) = 0
       THEN /\ pc' = "until_sleep"
            /\ UNCHANGED untilVars
       ELSE /\ buffer' = readData
            /\ chunks' = Append(chunks, readData)
            /\ IF pattern_search(expected, readData)
               THEN /\ untilResult' = "returned"
                    /\ untilData' = readData
                    /\ pc' = "idle"
               ELSE /\ pc' = "until_loop"
                    /\ UNCHANGED <<untilResult, untilData>>
            /\ UNCHANGED <<expected, nUntils>>
    /\ UNCHANGED <<reader, writer, connectResult, attemptStream, writeArg, writeDone,
                   nWrites, closeVars, scope, readVars, negVars, netVars, detVars>>

(* read() has returned chunk: an empty one is followed by sleep(0.01) and  *)
(* `continue`; another is copied to buffer[pos:], and the decoded          *)
(* buffer[:pos] is searched: on a match it is returned.                    *)
UntilChunk ==
    /\ pc = "until_chunk"
    /\ IF Len(readData) = 0
       THEN /\ pc' = "until_sleep"
            /\ UNCHANGED untilVars
       ELSE /\ buffer' = buffer \o readData
            /\ chunks' = Append(chunks, readData)
            /\ IF pattern_search(expected, buffer \o readData)
               THEN /\ untilResult' = "returned"
                    /\ untilData' = buffer \o readData
                    /\ pc' = "idle"
               ELSE /\ pc' = "until_loop"
                    /\ UNCHANGED <<untilResult, untilData>>
            /\ UNCHANGED <<expected, nUntils>>
    /\ UNCHANGED <<reader, writer, connectResult, attemptStream, writeArg, writeDone,
                   nWrites, closeVars, scope, readVars, negVars, netVars, detVars>>

(* sleep(0.01) returns, or the task is cancelled in it. *)
UntilSlept ==
    /\ pc = "until_sleep"
    /\ \/ /\ pc' = "until_loop"
          /\ UNCHANGED untilResult
       \/ /\ pc' = "idle"
          /\ untilResult' = "raised"
    /\ UNCHANGED <<reader, writer, connectResult, attemptStream, writeArg, writeDone,
                   nWrites, closeVars, scope, readVars, expected, buffer, untilData,
                   chunks, nUntils, negVars, netVars, detVars>>

(* __aenter__: `if not self.is_connected and not await self.connect():     *)
(* raise ConnectionError`.  A connected client enters the body at once;    *)
(* else connect() is called and __aenter__ goes on with its result.        *)
AenterCall ==
    /\ pc = "idle"
    /\ scope # "inside"
    /\ IF is_connected
       THEN /\ scope' = "inside"
            /\ UNCHANGED <<pc, connectResult, attemptStream>>
       ELSE /\ nOpened < MaxStreams
            /\ scope' = "entering"
            /\ pc' = "connect_open"
            /\ connectResult' = "pending"
            /\ attemptStream' = None
    /\ UNCHANGED <<reader, writer, writeArg, writeDone, nWrites, closeVars, readVars,
                   untilVars, negVars, netVars, detVars>>

(* __aenter__ that returns self whatever connect() returned *)
AenterConnected_ignores_result ==
    /\ pc = "aenter_connected"
    /\ pc' = "idle"
    /\ scope' = "inside"
    /\ UNCHANGED <<reader, writer, connectResult, attemptStream, writeArg, writeDone,
                   nWrites, closeVars, readVars, untilVars, negVars, netVars, detVars>>

(* connect() has returned to __aenter__: true, the body runs; false,      *)
(* ConnectionError is raised and the body does not run; and a cancellation *)
(* passes through __aenter__.                                              *)
AenterConnected ==
    /\ pc = "aenter_connected"
    /\ pc' = "idle"
    /\ scope' = CASE connectResult = "true" -> "inside"
                  [] connectResult = "false" -> "failed"
                  [] OTHER -> "cancelled"
    /\ UNCHANGED <<reader, writer, connectResult, attemptStream, writeArg, writeDone,
                   nWrites, closeVars, readVars, untilVars, negVars, netVars, detVars>>

(* __aexit__, run when the body ends, by its end or by an exception:       *)
(* `await self.close()`.                                                   *)
AexitCall ==
    /\ pc = "idle"
    /\ scope = "inside"
    /\ close_entry("exiting")

(* write(data): nothing without a writer; data as it is when it holds no   *)
(* IAC; else the escaped copy.  One StreamWriter.write, then drain.        *)
Write ==
    /\ pc = "idle"
    /\ nWrites < MaxWrites
    /\ \E data \in WriteData :
          /\ writeArg' = data
          /\ nWrites' = nWrites + 1
          /\ IF writer = None
             THEN /\ writeDone' = FALSE
                  /\ UNCHANGED <<pc, wire>>
             ELSE /\ writeDone' = TRUE
                  /\ StreamWrite(writer, write_payload(data))
                  /\ pc' = "write_drain"
    /\ UNCHANGED <<reader, writer, connectResult, attemptStream,
                   nOpened, openStreams, negVars>>
    /\ UNCHANGED <<callVars, detVars>>

(* drain() returns, or raises and write() raises with it. *)
WriteDrained ==
    /\ pc = "write_drain"
    /\ pc' = "idle"
    /\ UNCHANGED <<reader, writer, connectResult, attemptStream,
                   writeArg, writeDone, nWrites, negVars, netVars>>
    /\ UNCHANGED <<callVars, detVars>>

NextClient ==
    \/ ConnectCall
    \/ ConnectOpenFails
    \/ ConnectOpenCancelled
    \/ ConnectOpened
    \/ ConnectFailsAfterOpen
    \/ ConnectCancelledAfterOpen
    \/ ConnectDrained
    \/ ConnectSlept
    \/ ConnectReadTimesOut
    \/ ConnectReadReturns
    \/ ConnectReplyDrained
    \/ CloseCall
    \/ CloseWaited
    \/ CloseWaitRaises
    \/ CloseCancelled
    \/ Write
    \/ WriteDrained

(* connect() and read() *)
NextRead ==
    \/ ConnectCall
    \/ ConnectOpenFails
    \/ ConnectOpenCancelled
    \/ ConnectOpened
    \/ ConnectFailsAfterOpen
    \/ ConnectCancelledAfterOpen
    \/ ConnectDrained
    \/ ConnectSlept
    \/ ConnectReadTimesOut
    \/ ConnectReadReturns
    \/ ConnectReplyDrained
    \/ ReadCall
    \/ ReadTimesOut
    \/ ReadReturns
    \/ ReadReplyDrained
    \/ ReadRaises

(* connect() and read_until(), with the read() calls of its loop *)
NextUntil ==
    \/ ConnectCall
    \/ ConnectOpenFails
    \/ ConnectOpenCancelled
    \/ ConnectOpened
    \/ ConnectFailsAfterOpen
    \/ ConnectCancelledAfterOpen
    \/ ConnectDrained
    \/ ConnectSlept
    \/ ConnectReadTimesOut
    \/ ConnectReadReturns
    \/ ConnectReplyDrained
    \/ ReadTimesOut
    \/ ReadReturns
    \/ ReadReplyDrained
    \/ ReadRaises
    \/ UntilCall
    \/ UntilReads
    \/ UntilDeadline
    \/ UntilChunk
    \/ UntilSlept

(* `async with client:` around a body that writes *)
NextScope ==
    \/ AenterCall
    \/ ConnectOpenFails
    \/ ConnectOpenCancelled
    \/ ConnectOpened
    \/ ConnectFailsAfterOpen
    \/ ConnectCancelledAfterOpen
    \/ ConnectDrained
    \/ ConnectSlept
    \/ ConnectReadTimesOut
    \/ ConnectReadReturns
    \/ ConnectReplyDrained
    \/ AenterConnected
    \/ Write
    \/ WriteDrained
    \/ AexitCall
    \/ CloseWaited
    \/ CloseWaitRaises
    \/ CloseCancelled

(* ----------------------------------------------------------------------- *)
(* tests/detector.py: AsyncProtocolDetector                                *)
(* ----------------------------------------------------------------------- *)

(* b"SSH-", b"220 ", b"HTTP/", b"HTTP/1.0", b"HTTP/2" *)
SSH_PREFIX == <<83, 83, 72, 45>>
FTP_PREFIX == <<50, 50, 48, 32>>
HTTP_MARK == <<72, 84, 84, 80, 47>>
HTTP_1_0 == <<72, 84, 84, 80, 47, 49, 46, 48>>
HTTP_2 == <<72, 84, 84, 80, 47, 50>>

(* the host "h" and the request b"HEAD / HTTP/1.1\r\nHost: " + host + b"\r\n\r\n" *)
HostBytes == <<104>>

HeadRequest ==
    <<72, 69, 65, 68, 32, 47, 32, 72, 84, 84, 80, 47, 49, 46, 49, 13, 10,
      72, 111, 115, 116, 58, 32>> \o HostBytes \o <<13, 10, 13, 10>>

(* What a server sends first: nothing before closing, an SSH banner (with  *)
(* a trailing CR LF, and one holding a non-ASCII byte), an FTP greeting,   *)
(* telnet negotiation, text with an IAC in it, other text, a short "SSH".  *)
Banners ==
    { <<>>,
      <<83, 83, 72, 45, 50, 13, 10>>,
      <<83, 83, 72, 45, 255, 50>>,
      <<50, 50, 48, 32, 72>>,
      <<255, 253, 1>>,
      <<72, 105, 255>>,
      <<72, 105>>,
      <<83, 83, 72>> }

(* What a server answers to the HEAD request. *)
HttpResponses ==
    { <<>>,
      HTTP_1_0 \o <<32, 50>>,
      HTTP_MARK \o <<49, 46, 49>>,
      <<32>> \o HTTP_2,
      <<72, 84, 84, 80>>,
      <<72, 105>> }

startswith(data, prefix) ==
    Len(data) >= Len(prefix) /\ SubSeq(data, 1, Len(prefix)) = prefix

(* bytes.decode("ascii", errors="ignore"): the bytes above 127 are dropped *)
decode_ascii_ignore(data) == SelectSeq(data, LAMBDA b : b < 128)

(* str.strip(): leading and trailing ASCII whitespace removed *)
Whitespace == {9, 10, 11, 12, 13, 28, 29, 30, 31, 32}

RECURSIVE lstrip(_)
lstrip(text) ==
    IF Len(text) > 0 /\ Head(text) \in Whitespace THEN lstrip(Tail(text)) ELSE text

RECURSIVE rstrip(_)
rstrip(text) ==
    IF Len(text) > 0 /\ text[Len(text)] \in Whitespace
    THEN rstrip(SubSeq(text, 1, Len(text) - 1))
    ELSE text

strip(text) == rstrip(lstrip(text))

(* DetectionResult: banner and extra_info default to None *)
DetectionResult(protocol, has_banner, banner, extra_kind, extra) ==
    [protocol |-> protocol, has_banner |-> has_banner, banner |-> banner,
     extra_kind |-> extra_kind, extra |-> extra]

NoResult == DetectionResult("none", FALSE, <<>>, "none", <<>>)

(* _passive_detection with the Telnet test before the SSH and FTP tests *)
passive_classify_telnet_first(data) ==
    IF Len(data) > 0 /\ \E i \in 1..Len(data) : data[i] = IAC_BYTE
    THEN DetectionResult("TELNET", TRUE, data, "none", <<>>)
    ELSE IF startswith(data, SSH_PREFIX)
    THEN DetectionResult("SSH", TRUE, data, "version", strip(decode_ascii_ignore(data)))
    ELSE IF startswith(data, FTP_PREFIX)
    THEN DetectionResult("FTP", TRUE, data, "none", <<>>)
    ELSE DetectionResult("UNKNOWN_BANNER", TRUE, data, "none", <<>>)

(* _passive_detection's classification of the data it read *)
passive_classify(data) ==
    IF startswith(data, SSH_PREFIX)
    THEN DetectionResult("SSH", TRUE, data, "version",
                         strip(decode_ascii_ignore(data)))
    ELSE IF startswith(data, FTP_PREFIX)
    THEN DetectionResult("FTP", TRUE, data, "none", <<>>)
    ELSE IF /\ Len(data) > 0
            /\ \A i \in 1..Len(data) : data[i] \in 0..255
            /\ \E i \in 1..Len(data) : data[i] = IAC_BYTE
    THEN DetectionResult("TELNET", TRUE, data, "none", <<>>)
    ELSE DetectionResult("UNKNOWN_BANNER", TRUE, data, "none", <<>>)

(* _is_http's classification of the response it read; versions as text *)
http_classify(response) ==
    IF contains(response, HTTP_MARK)
    THEN DetectionResult("HTTP", TRUE, response, "version",
            IF contains(response, HTTP_1_0) THEN <<49, 46, 48>>
            ELSE IF contains(response, HTTP_2) THEN <<50>>
            ELSE <<49, 46, 49>>)
    ELSE DetectionResult("UNKNOWN", FALSE, <<>>, "none", <<>>)

NoCall == [op |-> "none", task_id |-> "none", known |-> FALSE]

InitConsole ==
    /\ live_started = FALSE
    /\ active_tasks = <<>>
    /\ progress_tasks = <<>>
    /\ console_call = NoCall

InitHarness ==
    /\ hosts = <<>>
    /\ ports = <<>>
    /\ max_concurrency = 0
    /\ hpc = "idle"
    /\ semaphore = 0
    /\ progress_id = "none"
    /\ tasks = <<>>
    /\ results = <<>>
    /\ completions = 0

NoStep == [byte |-> 0, before |-> ParserState_DATA, response |-> <<>>, emit |-> <<>>,
           call |-> <<>>]

InitParser ==
    /\ parser = [state |-> ParserState_DATA, cmd |-> 0, opt |-> 0, subneg_option |-> 0,
                 subneg_data |-> <<>>]
    /\ pstep = NoStep
    /\ subneg_seen = <<>>
    /\ nBytes = 0

InitInteract ==
    /\ ipc = "idle"
    /\ rpc = "none"
    /\ idle_count = 0
    /\ cancel_sent = FALSE
    /\ ending = "none"
    /\ frames = <<>>
    /\ wire_base = 0
    /\ reader_step = "none"
    /\ nLines = 0
    /\ nChunks = 0

InitExchange ==
    /\ xpc = "idle"
    /\ peers = [p \in {"a", "b"} |->
                  TelnetNegotiator(DefaultProfile.tt, DefaultProfile.w, DefaultProfile.h)]
    /\ inbox = [p \in {"a", "b"} |-> <<>>]

InitBuffer ==
    /\ bpc = "idle"
    /\ buffer_size = 0
    /\ pos = 0
    /\ held = <<>>
    /\ nCopied = 0

InitLate == InitInteract /\ InitExchange /\ InitBuffer

InitAux ==
    /\ InitParser
    /\ InitLate
    /\ handoff = "none"
    /\ detection_result = "none"
    /\ nGets = 0
    /\ InitConsole
    /\ InitHarness

InitDetector ==
    /\ current_reader = None
    /\ current_writer = None
    /\ dpc = "idle"
    /\ detResult = NoResult
    /\ detOpened = {}
    /\ nDetects = 0
    /\ passive_read = "none"
    /\ initial_data = <<>>
    /\ passive_result = NoResult
    /\ raised = "none"
    /\ InitAux

(* asyncio.open_connection returned a new stream, which the detector       *)
(* stores in its slot, over whatever the slot held.                        *)
detector_opens ==
    /\ nOpened' = nOpened + 1
    /\ openStreams' = openStreams \cup {nOpened + 1}
    /\ current_reader' = nOpened + 1
    /\ current_writer' = nOpened + 1
    /\ detOpened' = detOpened \cup {nOpened + 1}

(* _close_connection(): close the slot's writer, if any, and clear the slot *)
close_connection ==
    IF current_writer # None
    THEN /\ openStreams' = openStreams \ {current_writer}
         /\ current_writer' = None
         /\ current_reader' = None
    ELSE UNCHANGED <<openStreams, current_writer, current_reader>>

(* detect() returns result, leaving the slot as it is *)
detect_returns(result) ==
    /\ dpc' = "idle"
    /\ detResult' = result

(* detect()'s `except Exception`: _close_connection(), return ERROR *)
detect_except ==
    /\ close_connection
    /\ detect_returns(DetectionResult("ERROR", FALSE, <<>>, "error", <<>>))
    /\ UNCHANGED <<nOpened, wire, detOpened, nDetects>>

DetectCall ==
    /\ dpc = "idle"
    /\ handoff # "connecting"
    /\ nDetects < MaxDetects
    /\ nDetects' = nDetects + 1
    /\ dpc' = "passive_open"
    /\ detResult' = NoResult
    /\ detOpened' = {}
    /\ passive_read' = "none"
    /\ initial_data' = <<>>
    /\ passive_result' = NoResult
    /\ raised' = "none"
    /\ UNCHANGED <<current_reader, current_writer, negVars, netVars, clientVars>>
    /\ UNCHANGED auxVars

(* open_connection raises in _passive_detection or in _is_http (neither    *)
(* call is inside a try), the passive read raises something other than     *)
(* TimeoutError, or the TLS attempt raises something other than SSLError / *)
(* ConnectionRefusedError / OSError.                                       *)
DetectRaises ==
    /\ dpc \in {"passive_open", "passive_read", "tls_open", "http_open"}
    /\ raised' = dpc
    /\ detect_except
    /\ UNCHANGED <<negVars, clientVars>>
    /\ UNCHANGED passiveVars
    /\ UNCHANGED auxVars

PassiveOpened ==
    /\ dpc = "passive_open"
    /\ detector_opens
    /\ dpc' = "passive_read"
    /\ UNCHANGED <<detResult, nDetects, wire, negVars, clientVars>>
    /\ UNCHANGED passiveVars
    /\ UNCHANGED <<raised, auxVars>>

(* the passive read returns data (empty at EOF): detect() returns every    *)
(* classification but UNKNOWN at once.                                     *)
PassiveReadReturns ==
    /\ dpc = "passive_read"
    /\ \E data \in Banners :
          /\ passive_read' = "data"
          /\ initial_data' = data
          /\ passive_result' = passive_classify(data)
          /\ detect_returns(passive_classify(data))
    /\ UNCHANGED <<current_reader, current_writer, detOpened, nDetects,
                   negVars, netVars, clientVars>>
    /\ UNCHANGED <<raised, auxVars>>

(* _active_detection without its first statement *)
PassiveReadTimesOut_keeps_stream ==
    /\ dpc = "passive_read"
    /\ passive_read' = "timeout"
    /\ passive_result' = DetectionResult("UNKNOWN", FALSE, <<>>, "none", <<>>)
    /\ dpc' = "tls_open"
    /\ UNCHANGED <<initial_data, current_reader, current_writer, openStreams>>
    /\ UNCHANGED <<detResult, detOpened, nDetects, nOpened, wire, negVars, clientVars>>
    /\ UNCHANGED <<raised, auxVars>>

(* the passive read times out: UNKNOWN, so _active_detection runs:         *)
(* _close_connection(), then _is_tls awaits the TLS connection.            *)
PassiveReadTimesOut ==
    /\ dpc = "passive_read"
    /\ passive_read' = "timeout"
    /\ passive_result' = DetectionResult("UNKNOWN", FALSE, <<>>, "none", <<>>)
    /\ UNCHANGED initial_data
    /\ close_connection
    /\ dpc' = "tls_open"
    /\ UNCHANGED <<detResult, detOpened, nDetects, nOpened, wire, negVars, clientVars>>
    /\ UNCHANGED <<raised, auxVars>>

(* the TLS handshake completes: the stream is stored, detect returns HTTPS *)
TlsOpened ==
    /\ dpc = "tls_open"
    /\ detector_opens
    /\ detect_returns(DetectionResult("HTTPS", FALSE, <<>>, "none", <<>>))
    /\ UNCHANGED <<nDetects, wire, negVars, clientVars>>
    /\ UNCHANGED passiveVars
    /\ UNCHANGED <<raised, auxVars>>

(* SSLError, ConnectionRefusedError or OSError: _is_tls returns False and  *)
(* _is_http awaits a plain connection.                                     *)
TlsFails ==
    /\ dpc = "tls_open"
    /\ dpc' = "http_open"
    /\ UNCHANGED <<current_reader, current_writer, detResult, detOpened, nDetects,
                   negVars, netVars, clientVars>>
    /\ UNCHANGED passiveVars
    /\ UNCHANGED <<raised, auxVars>>

(* _is_http's connection opens; the HEAD request is written *)
HttpOpened ==
    /\ dpc = "http_open"
    /\ detector_opens
    /\ StreamWrite(nOpened + 1, HeadRequest)
    /\ dpc' = "http_drain"
    /\ UNCHANGED <<detResult, nDetects, negVars, clientVars>>
    /\ UNCHANGED passiveVars
    /\ UNCHANGED <<raised, auxVars>>

HttpDrained ==
    /\ dpc = "http_drain"
    /\ dpc' = "http_read"
    /\ UNCHANGED <<current_reader, current_writer, detResult, detOpened, nDetects,
                   negVars, netVars, clientVars>>
    /\ UNCHANGED passiveVars
    /\ UNCHANGED <<raised, auxVars>>

(* drain or read ends with TimeoutError (the read's deadline) or with an   *)
(* error, ConnectionRefusedError or OSError: _is_http returns UNKNOWN and  *)
(* so does detect().                                                       *)
HttpFails ==
    /\ dpc \in {"http_drain", "http_read"}
    /\ \/ dpc = "http_read" /\ UNCHANGED raised
       \/ raised' = dpc
    /\ detect_returns(DetectionResult("UNKNOWN", FALSE, <<>>, "none", <<>>))
    /\ UNCHANGED <<current_reader, current_writer, detOpened, nDetects,
                   negVars, netVars, clientVars>>
    /\ UNCHANGED passiveVars
    /\ UNCHANGED auxVars

HttpReadReturns ==
    /\ dpc = "http_read"
    /\ \E response \in HttpResponses : detect_returns(http_classify(response))
    /\ UNCHANGED <<current_reader, current_writer, detOpened, nDetects,
                   negVars, netVars, clientVars>>
    /\ UNCHANGED passiveVars
    /\ UNCHANGED <<raised, auxVars>>

DetectReturned == dpc = "idle" /\ detResult.protocol # "none"

(* detector.py: get_client(detection_result, host, port), called with the *)
(* result detect() returned.  SSH, HTTP and HTTPS: _close_connection(),    *)
(* then the library's client (asyncssh.connect may fail: None).  TELNET:   *)
(* _close_connection(), a new AsyncTelnetClient, and its connect() is      *)
(* awaited.  Any other protocol: None is returned and nothing is done.     *)
GetClientCall ==
    /\ dpc = "idle"
    /\ pc = "idle"
    /\ DetectReturned
    /\ nGets < MaxGets
    /\ nGets' = nGets + 1
    /\ detection_result' = detResult.protocol
    /\ CASE detResult.protocol = "SSH" ->
              /\ close_connection
              /\ handoff' \in {"ssh_client", "no_client"}
              /\ UNCHANGED <<clientVars, negVars, nOpened>>
         [] detResult.protocol \in {"HTTP", "HTTPS"} ->
              /\ close_connection
              /\ handoff' = "http_session"
              /\ UNCHANGED <<clientVars, negVars, nOpened>>
         [] detResult.protocol = "TELNET" ->
              /\ nOpened < MaxStreams
              /\ close_connection
              /\ handoff' = "connecting"
              /\ reader' = None
              /\ writer' = None
              /\ negotiator' = TelnetNegotiator(DefaultProfile.tt, DefaultProfile.w,
                                                DefaultProfile.h)
              /\ pc' = "connect_open"
              /\ connectResult' = "pending"
              /\ attemptStream' = None
              /\ UNCHANGED <<writeArg, writeDone, nWrites, callVars, nOpened,
                             negBefore, callData, retData, retResponses,
                             fed, fedData, fedResponses, nCalls>>
         [] OTHER ->
              /\ handoff' = "no_client"
              /\ UNCHANGED <<current_reader, current_writer, openStreams,
                             clientVars, negVars, nOpened>>
    /\ UNCHANGED <<dpc, detResult, detOpened, nDetects, passiveVars, raised, wire>>
    /\ UNCHANGED toolVars

(* _get_telnet_client: `await client.connect()` has returned, whatever its *)
(* result, and `return client` hands the client back; a cancellation       *)
(* passes through.                                                         *)
GetClientConnected ==
    /\ pc = "get_client_connected"
    /\ pc' = "idle"
    /\ handoff' = IF connectResult = "cancelled" THEN "cancelled" ELSE "telnet_client"
    /\ UNCHANGED <<reader, writer, connectResult, attemptStream, writeArg, writeDone,
                   nWrites, callVars, negVars, netVars>>
    /\ UNCHANGED <<current_reader, current_writer, dpc, detResult, detOpened, nDetects,
                   passiveVars, raised, nGets, detection_result>>
    /\ UNCHANGED toolVars

NextDetect ==
    \/ DetectCall
    \/ DetectRaises
    \/ PassiveOpened
    \/ PassiveReadReturns
    \/ PassiveReadTimesOut
    \/ TlsOpened
    \/ TlsFails
    \/ HttpOpened
    \/ HttpDrained
    \/ HttpFails
    \/ HttpReadReturns

(* detect(), then get_client() on its result *)
NextHandoff ==
    \/ DetectCall
    \/ DetectRaises
    \/ PassiveOpened
    \/ PassiveReadReturns
    \/ PassiveReadTimesOut
    \/ TlsOpened
    \/ TlsFails
    \/ HttpOpened
    \/ HttpDrained
    \/ HttpFails
    \/ HttpReadReturns
    \/ GetClientCall
    \/ ConnectOpenFails
    \/ ConnectOpenCancelled
    \/ ConnectOpened
    \/ ConnectFailsAfterOpen
    \/ ConnectCancelledAfterOpen
    \/ ConnectDrained
    \/ ConnectSlept
    \/ ConnectReadTimesOut
    \/ ConnectReadReturns
    \/ ConnectReplyDrained
    \/ GetClientConnected

InitClientSpec == InitNegotiator({DefaultProfile}) /\ InitNet /\ InitClient /\ InitDetector

SpecClient == InitClientSpec /\ [][NextClient]_vars

SpecRead == InitClientSpec /\ [][NextRead]_vars

SpecUntil == InitClientSpec /\ [][NextUntil]_vars

SpecScope == InitClientSpec /\ [][NextScope]_vars

SpecDetect == InitClientSpec /\ [][NextDetect]_vars

SpecHandoff == InitClientSpec /\ [][NextHandoff]_vars

Init == InitNegotiator(Profiles) /\ InitNet /\ InitClient /\ InitDetector

Next == FeedFrame

Spec == Init /\ [][Next]_vars

InitBytes == InitNegotiator({DefaultProfile}) /\ InitNet /\ InitClient /\ InitDetector

NextBytes == FeedBytes

SpecBytes == InitBytes /\ [][NextBytes]_vars

(* ----------------------------------------------------------------------- *)
(* Properties of the negotiator                                            *)
(* ----------------------------------------------------------------------- *)

Called == nCalls > 0

NoIAC(s) == \A i \in 1..Len(s) : s[i] # 255

SameOptionMaps(n1, n2) ==
    /\ n1.our_options = n2.our_options
    /\ n1.their_options = n2.their_options

FreshNegotiator ==
    TelnetNegotiator(negotiator.terminal_type, negotiator.window_width,
                     negotiator.window_height)

(* C1: feeding a byte string to one negotiator in consecutive chunks gives *)
(* the same concatenated user data, the same sequence of reply frames and  *)
(* the same option maps as feeding the whole string in one call.           *)
C1_ChunkingIsTransparent ==
    LET whole == handle_command(FreshNegotiator, fed)
    IN  /\ fedData = whole.processed
        /\ fedResponses = whole.responses
        /\ SameOptionMaps(negotiator, whole.neg)

(* C2: IAC DO TERMINAL_TYPE followed by IAC SB TERMINAL_TYPE 1 IAC SE      *)
(* yields no user data and exactly two replies: IAC WILL TERMINAL_TYPE,    *)
(* then IAC SB TERMINAL_TYPE 0 <terminal type> IAC SE.                     *)
C2_DoThenSendAnswersTerminalType ==
    (Called /\ callData = <<255, 253, 24, 255, 250, 24, 1, 255, 240>>) =>
        /\ retData = <<>>
        /\ retResponses =
             << <<255, 251, 24>>,
                <<255, 250, 24, 0>> \o negotiator.terminal_type \o <<255, 240>> >>

(* C5: a chunk that contains no IAC byte is returned unchanged as user     *)
(* data, with no reply frame, and leaves both option maps as they were.    *)
C5_NoIacPassesThrough ==
    (Called /\ NoIAC(callData)) =>
        /\ retData = callData
        /\ retResponses = <<>>
        /\ SameOptionMaps(negotiator, negBefore)

C5_Witness ==
    /\ nCalls = 2
    /\ callData = <<SE, DO>>
    /\ retData = <<SE, DO>>

(* C7: for an accepted option without a per-option handler (SGA, ECHO,     *)
(* BINARY), IAC DO o sets our_options[o] and IAC WILL o sets               *)
(* their_options[o] to true, and the one reply is IAC WILL o, resp.        *)
(* IAC DO o.  TERMINAL_TYPE and NAWS have handlers that override this.     *)
C7_AcceptedOptionIsEnabled ==
    \A o \in {SGA, ECHO, BINARY} :
        /\ (Called /\ callData = <<255, DO, o>>) =>
              /\ DictTrue(negotiator.our_options, o)
              /\ negotiator.their_options = negBefore.their_options
              /\ retResponses = << <<255, WILL, o>> >>
        /\ (Called /\ callData = <<255, WILL, o>>) =>
              /\ DictTrue(negotiator.their_options, o)
              /\ negotiator.our_options = negBefore.our_options
              /\ retResponses = << <<255, DO, o>> >>

C7_Witness ==
    /\ nCalls = 2
    /\ callData = <<255, WILL, BINARY>>
    /\ DictFalse(negBefore.their_options, BINARY)
    /\ DictTrue(negotiator.their_options, BINARY)

(* C8: for an option outside common and advanced, IAC DO o is answered     *)
(* IAC WONT o and IAC WILL o is answered IAC DONT o, and neither option    *)
(* map is ever true for such an option.                                    *)
C8_UnsupportedOptionIsRejected ==
    /\ \A o \in {STATUS, LINEMODE} :
          /\ (Called /\ callData = <<255, DO, o>>) => retResponses = << <<255, WONT, o>> >>
          /\ (Called /\ callData = <<255, WILL, o>>) => retResponses = << <<255, DONT, o>> >>
    /\ \A o \in 0..255 \ {SGA, ECHO, BINARY, TERMINAL_TYPE, NAWS} :
          /\ ~DictTrue(negotiator.our_options, o)
          /\ ~DictTrue(negotiator.their_options, o)

C8_Witness ==
    /\ nCalls = 2
    /\ callData = <<255, WILL, STATUS>>
    /\ DictFalse(negotiator.our_options, STATUS)
    /\ DictFalse(negotiator.their_options, STATUS)

(* C9: for an option without a per-option handler, IAC DONT o sets         *)
(* our_options[o] to false and is answered IAC WONT o; IAC WONT o sets     *)
(* their_options[o] to false and is answered IAC DONT o; the other map is  *)
(* unchanged.                                                              *)
C9_DisableIsHonoured ==
    \A o \in {SGA, ECHO, BINARY, STATUS, LINEMODE} :
        /\ (Called /\ callData = <<255, DONT, o>>) =>
              /\ DictFalse(negotiator.our_options, o)
              /\ negotiator.their_options = negBefore.their_options
              /\ retResponses = << <<255, WONT, o>> >>
        /\ (Called /\ callData = <<255, WONT, o>>) =>
              /\ DictFalse(negotiator.their_options, o)
              /\ negotiator.our_options = negBefore.our_options
              /\ retResponses = << <<255, DONT, o>> >>

C9_Witness ==
    /\ nCalls = 2
    /\ callData = <<255, DONT, SGA>>
    /\ DictTrue(negBefore.our_options, SGA)
    /\ DictFalse(negotiator.our_options, SGA)

(* C10: IAC DO NAWS sets our_options[NAWS] and is answered by one reply,   *)
(* IAC WILL NAWS immediately followed by IAC SB NAWS and the width and the *)
(* height as big-endian 16-bit values, IAC SE; no other command for NAWS   *)
(* is answered.                                                            *)
C10_WindowSizeReply ==
    /\ (/\ Called
        /\ callData = <<255, DO, NAWS>>
        /\ negotiator.window_width \in 0..65535
        /\ negotiator.window_height \in 0..65535) =>
          /\ DictTrue(negotiator.our_options, NAWS)
          /\ retResponses =
               << <<255, 251, 31, 255, 250, 31,
                    negotiator.window_width \div 256, negotiator.window_width % 256,
                    negotiator.window_height \div 256, negotiator.window_height % 256,
                    255, 240>> >>
    /\ \A c \in {DONT, WILL, WONT} :
          (Called /\ callData = <<255, c, NAWS>>) => retResponses = <<>>
    /\ (Called /\ callData = <<255, SB, NAWS, 1, 255, SE>>) => retResponses = <<>>

C10_Witness ==
    /\ Called
    /\ callData = <<255, DO, NAWS>>
    /\ negotiator.window_width = 300
    /\ retResponses = << <<255, 251, 31, 255, 250, 31, 1, 44, 255, 255, 255, 240>> >>

(* ----------------------------------------------------------------------- *)
(* Properties of the client                                                *)
(* ----------------------------------------------------------------------- *)

(* C3: when connect() has returned false or was cancelled, the stream that *)
(* attempt opened, if any, is closed and reader and writer are both None,  *)
(* so is_connected is false.                                               *)
C3_FailedConnectReleasesStream ==
    connectResult \in {"false", "cancelled"} =>
        /\ reader = None
        /\ writer = None
        /\ ~is_connected
        /\ attemptStream \notin openStreams

(* the writes to stream s, in order *)
WritesTo(s) == SelectSeq(wire, LAMBDA w : w.stream = s)

InitialNegotiationBytes ==
    <<255, 251, 3, 255, 253, 3, 255, 252, 1, 255, 251, 24, 255, 251, 31>>

(* C11: every stream connect() has opened carries, as its first write, the *)
(* 15 bytes FF FB 03 FF FD 03 FF FC 01 FF FB 18 FF FB 1F; while connect()  *)
(* awaits the drain of that write, before its grace sleep and its read,    *)
(* it is the only write on the stream and nothing has been parsed.         *)
C11_InitialNegotiationFirst ==
    /\ \A s \in 1..nOpened :
          /\ Len(WritesTo(s)) >= 1
          /\ WritesTo(s)[1].payload = InitialNegotiationBytes
    /\ pc \in {"connect_drain", "connect_sleep", "connect_read"} =>
          /\ Len(WritesTo(attemptStream)) = 1
          /\ wire[Len(wire)].stream = attemptStream

(* a successful connect whose server asked for the terminal type: the      *)
(* reply frames follow the initial negotiation on the same stream          *)
C11_Witness ==
    /\ pc = "idle"
    /\ connectResult = "true"
    /\ attemptStream = 1
    /\ Len(WritesTo(1)) = 2
    /\ WritesTo(1)[1].payload = InitialNegotiationBytes
    /\ WritesTo(1)[2].payload = <<255, 251, 24, 255, 253, 1>>

(* a step in which a close() call returns normally *)
CloseReturnsStep ==
    /\ closeResult' = "returned"
    /\ pc = "close_wait" \/ nCloses' = nCloses + 1

(* C12: close() returns normally whenever its close handshake ends, with   *)
(* an error or without, and only the task's own cancellation leaves it     *)
(* otherwise; when it returns reader and writer are None; a close() of a   *)
(* closed client changes nothing of the client, the streams, the wire or   *)
(* the negotiator; a connect() called after close() starts a new           *)
(* connection attempt instead of returning at once.                        *)
C12_CloseIsSafeAndIdempotent ==
    [][ /\ (pc = "close_wait" =>
               /\ closeResult' \in {"returned", "cancelled"}
               /\ closeError' => closeResult' = "returned"
               /\ reader' = None /\ writer' = None)
        /\ (CloseReturnsStep => reader' = None /\ writer' = None /\ pc' = "idle")
        /\ (nCloses' = nCloses + 1 /\ writer = None =>
               /\ closeResult' = "returned"
               /\ UNCHANGED <<reader, writer, pc, connectResult, attemptStream,
                              netVars, negVars, readVars, untilVars>>)
        /\ (pc = "idle" /\ closeResult \in {"returned", "cancelled"}
               /\ ~is_connected /\ connectResult' = "pending" =>
               /\ pc' = "connect_open"
               /\ nOpened < MaxStreams)
      ]_vars

(* the first close()'s handshake raised, a second close() followed, and a  *)
(* connect() after them opened a second stream and returned true           *)
C12_Witness ==
    /\ nCloses = 2
    /\ closeError
    /\ closeResult = "returned"
    /\ connectResult = "true"
    /\ pc = "idle"
    /\ nOpened = 2
    /\ reader = 2 /\ writer = 2
    /\ openStreams = {2}

(* C13: a connect() call on a connected client returns true at once: it   *)
(* opens no stream, writes nothing, reads and parses nothing, and leaves   *)
(* reader, writer and the negotiator as they were.  (At pc "idle" only a   *)
(* connect() call changes connectResult or attemptStream.)                 *)
C13_ConnectWhenConnectedIsNoOp ==
    [][ pc = "idle" /\ is_connected
           /\ <<connectResult, attemptStream>>' # <<connectResult, attemptStream>> =>
           /\ connectResult' = "true"
           /\ attemptStream' = None
           /\ UNCHANGED <<reader, writer, pc, nOpened, openStreams, wire, negVars>>
      ]_vars

(* connect() has returned true on a client that was connected: this call  *)
(* opened no stream, and the one stream carries only what the first        *)
(* connect() wrote                                                         *)
C13_Witness ==
    /\ pc = "idle"
    /\ connectResult = "true"
    /\ attemptStream = None
    /\ is_connected
    /\ nOpened = 1
    /\ Len(wire) = 1

(* C14: __aenter__ calls connect() exactly when the client is not          *)
(* connected; when connect() returned false it raises and the body does    *)
(* not run, when it returned true the body runs; __aexit__ always runs     *)
(* close(), and when it is over reader and writer are None and the stream  *)
(* the writer held is closed.                                              *)
C14_ScopedResource ==
    [][ /\ (pc = "idle" /\ scope # "inside" /\ scope' = "entering" =>
               ~is_connected /\ pc' = "connect_open")
        /\ (pc = "idle" /\ scope # "inside" /\ scope' = "inside" => is_connected)
        /\ (pc = "aenter_connected" =>
               /\ connectResult = "false" => scope' = "failed"
               /\ connectResult = "true" => scope' = "inside"
               /\ scope' = "inside" => connectResult = "true")
        /\ (scope = "inside" /\ scope' # "inside" =>
               /\ nCloses' = nCloses + 1
               /\ scope' \in {"exiting", "exited"}
               /\ writer # None => writer \notin openStreams' /\ pc' = "close_wait")
        /\ (scope' = "exiting" => pc' = "close_wait")
        /\ (scope # "exited" /\ scope' = "exited" =>
               /\ reader' = None /\ writer' = None
               /\ writer \notin openStreams'
               /\ closeResult' \in {"returned", "cancelled"})
      ]_vars

(* a scope that connected on entry, wrote in its body and has exited *)
C14_Witness ==
    /\ scope = "exited"
    /\ pc = "idle"
    /\ attemptStream = 1
    /\ writeDone
    /\ nCloses = 1
    /\ reader = None /\ writer = None
    /\ openStreams = {}

(* a step in which the stream's read hands read() a chunk *)
ReadGetsChunkStep ==
    /\ pc = "read_wait"
    /\ pc' # "read_wait"
    /\ readResult' \notin {"timeout", "raised"}

(* C15: a read() whose deadline expires returns empty bytes and changes    *)
(* nothing else; a read() without a reader returns empty bytes and changes *)
(* nothing; any other read() that returns returns the processed data that  *)
(* handle_command gives for the chunk read.                                *)
C15_ReadIsSoft ==
    [][ /\ (readResult = "pending" /\ readResult' = "timeout" =>
               /\ readData' = <<>>
               /\ pc' \in {"idle", "until_chunk"}
               /\ UNCHANGED <<reader, writer, negVars, netVars>>)
        /\ (nReads' = nReads + 1 /\ reader = None =>
               /\ readResult' = "not_connected"
               /\ readData' = <<>>
               /\ UNCHANGED <<reader, writer, pc, readChunk, negVars, netVars>>)
        /\ (nReads' = nReads + 1 /\ reader # None =>
               /\ readResult' = "pending"
               /\ pc' = "read_wait")
        /\ (readResult = "pending" /\ readResult' = "returned" =>
               readData' = handle_command(negBefore', readChunk').processed)
        /\ (ReadGetsChunkStep =>
               negotiator' = handle_command(negotiator, readChunk').neg)
      ]_vars

(* a read() of text around two negotiation frames has returned the text *)
C15_Witness ==
    /\ pc = "idle"
    /\ readResult = "returned"
    /\ readChunk = <<72, 255, 253, 3, 255, 251, 1, 105>>
    /\ readData = <<72, 105>>

(* the byte strings of a list one after the other, first to last *)
Concatenation(list) ==
    [i \in 1..Len(JoinBytes(list)) |->
        LET k == CHOOSE k \in 1..Len(list) :
                    /\ Len(JoinBytes(SubSeq(list, 1, k - 1))) < i
                    /\ i <= Len(JoinBytes(SubSeq(list, 1, k)))
        IN  list[k][i - Len(JoinBytes(SubSeq(list, 1, k - 1)))]]

(* C18: when a read() gets a chunk, the replies handle_command produces    *)
(* for it are written in one write, joined in their order, and read()      *)
(* returns the chunk's user data only after awaiting the drain of that     *)
(* write; a chunk without replies causes no write.  The chunk connect()    *)
(* reads is handled the same way.                                          *)
C18_RepliesWrittenBeforeData ==
    [][ /\ (ReadGetsChunkStep =>
               LET r == handle_command(negotiator, readChunk')
               IN  IF Len(r.responses) > 0
                   THEN /\ wire' = Append(wire, [stream |-> writer,
                                                 payload |-> Concatenation(r.responses)])
                        /\ pc' = "read_reply_drain"
                        /\ readResult' = "pending"
                        /\ UNCHANGED readData
                   ELSE /\ wire' = wire
                        /\ readResult' = "returned")
        /\ (pc = "read_reply_drain" =>
               /\ wire' = wire
               /\ readResult' = "returned" => readData' = retData)
        /\ (pc = "connect_read" /\ wire' # wire =>
               /\ retResponses' = handle_command(negotiator, callData').responses
               /\ wire' = Append(wire, [stream |-> writer,
                                        payload |-> Concatenation(retResponses')])
               /\ pc' = "connect_reply_drain")
        /\ (pc = "connect_reply_drain" => wire' = wire)
      ]_vars

(* a read() of text around two frames wrote both replies in one write, in  *)
(* the frames' order, and has returned the text after the drain            *)
C18_Witness ==
    /\ pc = "idle"
    /\ readResult = "returned"
    /\ readChunk = <<72, 255, 253, 3, 255, 251, 1, 105>>
    /\ readData = <<72, 105>>
    /\ retResponses = << <<255, 251, 3>>, <<255, 253, 1>> >>
    /\ wire[Len(wire)] = [stream |-> 1, payload |-> <<255, 251, 3, 255, 253, 1>>]

(* C16: while read_until runs, its buffer is the chunks it appended, in    *)
(* order, and once a chunk is appended the buffer holds no match (else it  *)
(* had returned); when it returns after appending chunks, it returns all   *)
(* of them joined in order, that value matches the pattern, no shorter     *)
(* run of the chunks did, and no read is in progress.                      *)
C16_ReadUntilReturnsAtFirstMatch ==
    /\ untilResult = "running" =>
          /\ buffer = JoinBytes(chunks)
          /\ Len(chunks) > 0 => ~pattern_search(expected, buffer)
    /\ untilResult = "returned" /\ Len(chunks) > 0 =>
          /\ pc = "idle"
          /\ untilData = JoinBytes(chunks)
          /\ pattern_search(expected, untilData)
          /\ \A k \in 1..(Len(chunks) - 1) :
                ~pattern_search(expected, JoinBytes(SubSeq(chunks, 1, k)))
          /\ \A k \in 1..Len(chunks) : Len(chunks[k]) > 0

(* read_until(b"Hi") made three reads: "H", "i" and one without user data *)
C16_Witness ==
    /\ untilResult = "returned"
    /\ expected = <<72, 105>>
    /\ chunks = << <<72>>, <<105>> >>
    /\ untilData = <<72, 105>>
    /\ nReads = 3
    /\ pc = "idle"

(* C17: read_until returns normally only when the data it returns matches  *)
(* the pattern, whether the client is connected or not.                    *)
C17_ReadUntilReturnsOnlyOnMatch ==
    untilResult = "returned" => pattern_search(expected, untilData)

(* every 0xFF of d written twice, every other byte once, in order *)
RECURSIVE Doubled(_)
Doubled(d) ==
    IF Len(d) = 0 THEN <<>>
    ELSE (IF Head(d) = 255 THEN <<255, 255>> ELSE <<Head(d)>>) \o Doubled(Tail(d))

LastWritten == wire[Len(wire)].payload

(* C6: write(d) on a connected client puts on the wire d with every 0xFF   *)
(* doubled and nothing else changed, len(d) plus the number of 0xFF bytes  *)
(* long, and handle_command of that payload returns d and no reply.        *)
C6_WriteEscapesAndParsesBack ==
    pc = "write_drain" =>
        /\ writeDone
        /\ LastWritten = Doubled(writeArg)
        /\ wire[Len(wire)].stream = writer
        /\ Len(LastWritten) =
              Len(writeArg) + Cardinality({ i \in 1..Len(writeArg) : writeArg[i] = 255 })
        /\ LET back == handle_command(FreshNegotiator, LastWritten)
           IN  /\ back.processed = writeArg
               /\ back.responses = <<>>

C6_Witness ==
    /\ pc = "write_drain"
    /\ writeArg = <<255, 65, 255, 66>>
    /\ LastWritten = <<255, 255, 65, 255, 255, 66>>

(* ----------------------------------------------------------------------- *)
(* Properties of the detector                                              *)
(* ----------------------------------------------------------------------- *)


(* C4: when detect() has returned, whatever the outcome, every stream it   *)
(* opened is closed, unless the stream is the one a Telnet client was      *)
(* handed for a TELNET result.                                             *)
C4_DetectClosesItsStreams ==
    DetectReturned =>
        \A s \in detOpened \cap openStreams :
            detResult.protocol = "TELNET" /\ writer = s

HasByte(data, byte) == \E i \in 1..Len(data) : data[i] = byte

BeginsWith(data, text) ==
    /\ Len(data) >= Len(text)
    /\ \A i \in 1..Len(text) : data[i] = text[i]

C20_BannerOnlyFromPassiveData ==
    DetectReturned =>
        (detResult.has_banner <=> (passive_read = "data" /\ Len(initial_data) > 0))

(* C21: the TLS attempt begins only from the passive read, when it timed   *)
(* out (UNKNOWN), and then the passive stream is closed and the slot is    *)
(* empty; the HTTP probe begins only from a failed TLS attempt; and a      *)
(* passive read that returned data ends detect() with the one stream it    *)
(* opened.                                                                 *)
C21_PassiveBeforeActive ==
    [][ /\ (dpc # "tls_open" /\ dpc' = "tls_open" =>
               /\ dpc = "passive_read"
               /\ passive_read' = "timeout"
               /\ passive_result'.protocol = "UNKNOWN"
               /\ current_writer' = None /\ current_reader' = None
               /\ detOpened' \cap openStreams' = {}
               /\ nOpened' = nOpened)
        /\ (dpc # "http_open" /\ dpc' = "http_open" =>
               /\ dpc = "tls_open"
               /\ Cardinality(detOpened') = 1
               /\ nOpened' = nOpened)
        /\ (dpc' \in {"tls_open", "http_open", "http_drain", "http_read"} =>
               passive_read' = "timeout")
        /\ (passive_read' = "data" =>
               /\ dpc' = "idle"
               /\ detResult' = passive_result'
               /\ detResult'.protocol \in {"SSH", "FTP", "TELNET", "UNKNOWN_BANNER"}
               /\ Cardinality(detOpened') = 1)
      ]_vars

(* a silent server that refused TLS and answered the HEAD request: two     *)
(* streams, the passive one closed                                         *)
C21_Witness ==
    /\ DetectReturned
    /\ detResult.protocol = "HTTP"
    /\ passive_read = "timeout"
    /\ detOpened = {1, 2}
    /\ openStreams = {2}

(* C22: when an await of the passive phase or of the HTTP probe raised an  *)
(* error, detect() returns ERROR with the detector's stream closed and its *)
(* slot empty.                                                             *)
C22_ErrorsBecomeErrorResult ==
    DetectReturned /\ raised # "none" =>
        /\ detResult.protocol = "ERROR"
        /\ detResult.extra_kind = "error"
        /\ current_writer = None
        /\ current_reader = None
        /\ detOpened \cap openStreams = {}

(* C23: while get_client connects the Telnet client the detector's slot   *)
(* is empty and its stream closed; the Telnet client handed back has       *)
(* completed connect() with true and is connected; and a protocol that is  *)
(* not SSH, HTTP, HTTPS or TELNET gets no client.                          *)
C23_TelnetHandoffIsConnected ==
    /\ handoff = "connecting" =>
          /\ current_writer = None /\ current_reader = None
          /\ detOpened \cap openStreams \subseteq {attemptStream}
    /\ handoff = "telnet_client" =>
          /\ detection_result = "TELNET"
          /\ connectResult = "true"
          /\ is_connected
    /\ nGets > 0 /\ detection_result \notin {"SSH", "HTTP", "HTTPS", "TELNET"} =>
          handoff = "no_client"

(* ----------------------------------------------------------------------- *)
(* cli/console.py: progress bars and the live display                      *)
(* ----------------------------------------------------------------------- *)

MaxTasks == 3
TaskIds == {"task_a", "task_b"}
Totals == {1, 2}
Unset == -1

ConsoleCall(op, task_id) ==
    [op |-> op, task_id |-> task_id, known |-> task_id \in DOMAIN active_tasks]

(* start_live_display(): start the display unless it is started *)
start_live_display ==
    live_started' = TRUE

(* stop_live_display(): stop the display only when it is started and no    *)
(* task is active                                                          *)
stop_live_display ==
    live_started' = IF live_started /\ DOMAIN active_tasks = {} THEN FALSE
                    ELSE live_started

(* create_progress(description, total, task_id): starts the display when   *)
(* needed, adds a Progress task (rich numbers them from 0, the model from  *)
(* 1) and records it under task_id, replacing what the id named before.    *)
create_progress(task_id, total) ==
    /\ IF ~live_started THEN start_live_display ELSE UNCHANGED live_started
    /\ progress_tasks' = Append(progress_tasks, [total |-> total, completed |-> 0])
    /\ active_tasks' = [x \in DOMAIN active_tasks \cup {task_id} |->
                          IF x = task_id THEN Len(progress_tasks) + 1
                          ELSE active_tasks[x]]

(* update_progress(task_id, advance, completed): an unknown id is logged   *)
(* and nothing else; else progress.update() adds advance to the task's     *)
(* completed count, or sets it.                                            *)
update_progress(task_id, advance, completed) ==
    /\ IF task_id \notin DOMAIN active_tasks
       THEN UNCHANGED progress_tasks
       ELSE progress_tasks' =
              [progress_tasks EXCEPT ![active_tasks[task_id]].completed =
                  IF completed # Unset THEN completed
                  ELSE IF advance # Unset THEN @ + advance
                  ELSE @]
    /\ UNCHANGED <<live_started, active_tasks>>

(* complete_progress(task_id, description): an unknown id is logged and    *)
(* nothing else; else the task's completed count is set to its total, the  *)
(* id is deleted from _active_tasks, and the display is stopped when no    *)
(* task is left.                                                           *)
complete_progress_keeps_display(task_id) ==
    /\ IF task_id \notin DOMAIN active_tasks
       THEN UNCHANGED <<progress_tasks, active_tasks>>
       ELSE /\ progress_tasks' =
                 [progress_tasks EXCEPT ![active_tasks[task_id]].completed =
                     progress_tasks[active_tasks[task_id]].total]
            /\ active_tasks' = [x \in DOMAIN active_tasks \ {task_id} |-> active_tasks[x]]
    /\ UNCHANGED live_started

complete_progress(task_id) ==
    IF task_id \notin DOMAIN active_tasks
    THEN UNCHANGED <<live_started, progress_tasks, active_tasks>>
    ELSE /\ progress_tasks' =
              [progress_tasks EXCEPT ![active_tasks[task_id]].completed =
                     progress_tasks[active_tasks[task_id]].total]
         /\ active_tasks' = [x \in DOMAIN active_tasks \ {task_id} |-> active_tasks[x]]
         /\ IF DOMAIN active_tasks \ {task_id} = {} /\ live_started
            THEN live_started' = FALSE
            ELSE UNCHANGED live_started

StartLiveDisplay ==
    /\ start_live_display
    /\ console_call' = ConsoleCall("start_live_display", "none")
    /\ UNCHANGED <<active_tasks, progress_tasks, mainVars, harnessVars, parserVars, lateVars>>

StopLiveDisplay ==
    /\ stop_live_display
    /\ console_call' = ConsoleCall("stop_live_display", "none")
    /\ UNCHANGED <<active_tasks, progress_tasks, mainVars, harnessVars, parserVars, lateVars>>

CreateProgress ==
    /\ Len(progress_tasks) < MaxTasks
    /\ \E task_id \in TaskIds, total \in Totals :
          /\ create_progress(task_id, total)
          /\ console_call' = ConsoleCall("create_progress", task_id)
    /\ UNCHANGED <<mainVars, harnessVars, parserVars, lateVars>>

UpdateProgress ==
    /\ \E task_id \in TaskIds, advance \in {Unset, 1}, completed \in {Unset, 0} :
          /\ advance = Unset \/ completed = Unset
          /\ task_id \in DOMAIN active_tasks /\ advance # Unset =>
                progress_tasks[active_tasks[task_id]].completed <
                    progress_tasks[active_tasks[task_id]].total
          /\ update_progress(task_id, advance, completed)
          /\ console_call' = ConsoleCall("update_progress", task_id)
    /\ UNCHANGED <<mainVars, harnessVars, parserVars, lateVars>>

CompleteProgress ==
    /\ \E task_id \in TaskIds :
          /\ complete_progress(task_id)
          /\ console_call' = ConsoleCall("complete_progress", task_id)
    /\ UNCHANGED <<mainVars, harnessVars, parserVars, lateVars>>

NextConsole ==
    \/ StartLiveDisplay
    \/ StopLiveDisplay
    \/ CreateProgress
    \/ UpdateProgress
    \/ CompleteProgress

SpecConsole == InitClientSpec /\ [][NextConsole]_vars

(* the console state an operation can change *)
ConsoleState == <<live_started, active_tasks, progress_tasks>>

(* C28: the live display is started whenever a task is active;             *)
(* stop_live_display changes nothing while a task is active; completing    *)
(* the last active task removes it and stops the display, completing one   *)
(* of several removes only that one and leaves the display running; and an *)
(* update or completion for an unknown id changes no state.                *)
C28_DisplayFollowsActiveTasks ==
    [][ /\ (DOMAIN active_tasks # {} => live_started)
        /\ (DOMAIN active_tasks' # {} => live_started')
        /\ (console_call'.op = "stop_live_display" /\ DOMAIN active_tasks # {} =>
              ConsoleState' = ConsoleState)
        /\ (console_call'.op = "complete_progress" /\ console_call'.known =>
              /\ DOMAIN active_tasks' = DOMAIN active_tasks \ {console_call'.task_id}
              /\ \A x \in DOMAIN active_tasks' : active_tasks'[x] = active_tasks[x]
              /\ live_started' = (DOMAIN active_tasks' # {}))
        /\ (console_call'.op \in {"update_progress", "complete_progress"}
              /\ ~console_call'.known =>
              ConsoleState' = ConsoleState)
      ]_vars

C28_Witness ==
    /\ console_call.op = "complete_progress"
    /\ console_call.known
    /\ DOMAIN active_tasks = {}
    /\ ~live_started
    /\ Len(progress_tasks) = 2

(* ----------------------------------------------------------------------- *)
(* tests/connect.py: try_connect and test_connections                      *)
(* ----------------------------------------------------------------------- *)

HostLists == {<<>>, <<"alpha">>, <<"alpha", "beta">>}
PortLists == {<<80>>, <<22, 80>>}
(* asyncio.Semaphore accepts every value that is not negative, 0 included *)
Concurrencies == {0, 1, 2}

(* what wait_for(open_connection(...)) and wait_closed() can end with: the *)
(* connection opened and closed, the deadline, a DNS failure, an OS or     *)
(* network error (str(e) is the text the OS or asyncio gave, never empty), *)
(* any other exception (whose text may be empty), or an OS error raised by *)
(* wait_closed() after a successful open.                                  *)
OpenFailures ==
    { [kind |-> "TimeoutError", text |-> ""],
      [kind |-> "gaierror",     text |-> "Name or service not known"],
      [kind |-> "OSError",      text |-> "Connection refused"],
      [kind |-> "Exception",    text |-> ""] }

CloseFailure == [kind |-> "OSError", text |-> "Connection reset by peer"]

NoConnectionResult ==
    [host |-> "none", port |-> 0, success |-> FALSE, has_error |-> FALSE, error |-> <<>>]

(* ConnectionResult(host, port, success, time_ms, error); time_ms, a       *)
(* measured duration, is left out, and error is None (has_error false) or  *)
(* a text given as its pieces.                                             *)
ConnectionResult(host, port, success, has_error, error) ==
    [host |-> host, port |-> port, success |-> success, has_error |-> has_error,
     error |-> error]

(* try_connect's except clauses *)
try_connect_except_reports_success(host, port, e) ==
    ConnectionResult(host, port, TRUE, FALSE, <<>>)

try_connect_except(host, port, e) ==
    CASE e.kind = "TimeoutError" ->
           ConnectionResult(host, port, FALSE, TRUE, <<"Connection timed out">>)
      [] e.kind = "gaierror" ->
           ConnectionResult(host, port, FALSE, TRUE, <<"DNS resolution error: ", e.text>>)
      [] e.kind = "OSError" ->
           ConnectionResult(host, port, FALSE, TRUE, <<e.text>>)
      [] OTHER ->
           ConnectionResult(host, port, FALSE, TRUE, <<"Unexpected error: ", e.text>>)

(* tasks = [connection_task(host, port) for host in hosts for port in ports] *)
TaskPairs_port_major(hs, ps) ==
    [k \in 1..(Len(hs) * Len(ps)) |->
        [host |-> hs[((k - 1) % Len(hs)) + 1], port |-> ps[((k - 1) \div Len(hs)) + 1]]]

TaskPairs(hs, ps) ==
    [k \in 1..(Len(hs) * Len(ps)) |->
        [host |-> hs[((k - 1) \div Len(ps)) + 1], port |-> ps[((k - 1) % Len(ps)) + 1]]]

Holding == {i \in DOMAIN tasks : tasks[i].pc \in {"opening", "closing"}}

(* test_connections up to its await of gather *)
TestConnectionsCall ==
    /\ hpc = "idle"
    /\ \E hs \in HostLists, ps \in PortLists, mc \in Concurrencies :
        LET id == "task_a" IN
          /\ id \notin DOMAIN active_tasks
          /\ hosts' = hs
          /\ ports' = ps
          /\ max_concurrency' = mc
          /\ semaphore' = mc
          /\ create_progress(id, Len(hs) * Len(ps))
          /\ console_call' = ConsoleCall("create_progress", id)
          /\ progress_id' = id
          /\ tasks' = [k \in DOMAIN TaskPairs(hs, ps) |->
                         [host |-> TaskPairs(hs, ps)[k].host,
                          port |-> TaskPairs(hs, ps)[k].port,
                          pc |-> "waiting", outcome |-> "none", stream |-> "none",
                          result |-> NoConnectionResult]]
    /\ hpc' = "gathering"
    /\ UNCHANGED <<results, completions, mainVars, parserVars, lateVars>>

(* connection_task: `async with semaphore` is entered, try_connect called  *)
(* up to its await of the connection                                       *)
ProbeAcquires_without_permit(i) ==
    /\ tasks[i].pc = "waiting"
    /\ semaphore' = semaphore - 1
    /\ tasks' = [tasks EXCEPT ![i].pc = "opening"]
    /\ UNCHANGED <<hosts, ports, max_concurrency, hpc, progress_id, results, completions,
                   consoleVars, mainVars, parserVars, lateVars>>

ProbeAcquires(i) ==
    /\ tasks[i].pc = "waiting"
    /\ semaphore > 0
    /\ semaphore' = semaphore - 1
    /\ tasks' = [tasks EXCEPT ![i].pc = "opening"]
    /\ UNCHANGED <<hosts, ports, max_concurrency, hpc, progress_id, results, completions,
                   consoleVars, mainVars, parserVars, lateVars>>

(* connection_task after try_connect returned result: the progress is      *)
(* advanced by one, the semaphore released and result returned             *)
probe_returns(i, outcome, result) ==
    /\ tasks' = [tasks EXCEPT ![i] =
                    [@ EXCEPT !.pc = "done", !.outcome = outcome, !.result = result]]
    /\ semaphore' = semaphore + 1
    /\ update_progress(progress_id, 1, Unset)
    /\ console_call' = ConsoleCall("update_progress", progress_id)
    /\ UNCHANGED <<hosts, ports, max_concurrency, hpc, progress_id, results, completions,
                   mainVars, parserVars, lateVars>>

(* try_connect: the connection is open; writer.close(), await wait_closed() *)
ProbeOpened(i) ==
    /\ tasks[i].pc = "opening"
    /\ tasks' = [tasks EXCEPT ![i].pc = "closing", ![i].stream = "closed"]
    /\ UNCHANGED <<hosts, ports, max_concurrency, hpc, semaphore, progress_id, results,
                   completions, consoleVars, mainVars, parserVars, lateVars>>

(* try_connect: wait_for raises e; the except clause returns the result *)
ProbeOpenFails(i) ==
    /\ tasks[i].pc = "opening"
    /\ \E e \in OpenFailures :
          probe_returns(i, e.kind, try_connect_except(tasks[i].host, tasks[i].port, e))

(* try_connect: wait_closed() returns; the success result is returned *)
ProbeClosed(i) ==
    /\ tasks[i].pc = "closing"
    /\ probe_returns(i, "connected",
                     ConnectionResult(tasks[i].host, tasks[i].port, TRUE, FALSE, <<>>))

(* try_connect: wait_closed() raises an OS error *)
ProbeCloseFails(i) ==
    /\ tasks[i].pc = "closing"
    /\ probe_returns(i, "close_failed",
                     try_connect_except(tasks[i].host, tasks[i].port, CloseFailure))

(* an exception leaves connection_task while it holds the semaphore (none  *)
(* comes out of try_connect's own try block; the statements around it can  *)
(* raise): `async with` releases the semaphore, nothing is advanced        *)
ProbeRaises(i) ==
    /\ tasks[i].pc \in {"opening", "closing"}
    /\ tasks' = [tasks EXCEPT ![i].pc = "failed", ![i].outcome = "raised"]
    /\ semaphore' = semaphore + 1
    /\ UNCHANGED <<hosts, ports, max_concurrency, hpc, progress_id, results, completions,
                   consoleVars, mainVars, parserVars, lateVars>>

(* gather returns the tasks' results in the order of the tasks;            *)
(* complete_progress, return results                                       *)
GatherReturns ==
    /\ hpc = "gathering"
    /\ \A i \in DOMAIN tasks : tasks[i].pc = "done"
    /\ results' = [i \in DOMAIN tasks |-> tasks[i].result]
    /\ complete_progress(progress_id)
    /\ console_call' = ConsoleCall("complete_progress", progress_id)
    /\ completions' = completions + 1
    /\ hpc' = "returned"
    /\ UNCHANGED <<hosts, ports, max_concurrency, semaphore, progress_id, tasks, mainVars, parserVars, lateVars>>

(* gather raises the first exception of a task while the other tasks go    *)
(* on; `except Exception`: complete_progress, raise                        *)
GatherRaises_skips_completion ==
    /\ hpc = "gathering"
    /\ \E i \in DOMAIN tasks : tasks[i].pc = "failed"
    /\ hpc' = "raised"
    /\ UNCHANGED <<hosts, ports, max_concurrency, semaphore, progress_id, tasks, results,
                   completions, consoleVars, mainVars, parserVars, lateVars>>

GatherRaises ==
    /\ hpc = "gathering"
    /\ \E i \in DOMAIN tasks : tasks[i].pc = "failed"
    /\ complete_progress(progress_id)
    /\ console_call' = ConsoleCall("complete_progress", progress_id)
    /\ completions' = completions + 1
    /\ hpc' = "raised"
    /\ UNCHANGED <<hosts, ports, max_concurrency, semaphore, progress_id, tasks, results,
                   mainVars, parserVars, lateVars>>

NextHarness ==
    \/ TestConnectionsCall
    \/ \E i \in DOMAIN tasks : ProbeAcquires(i)
    \/ \E i \in DOMAIN tasks : ProbeOpened(i)
    \/ \E i \in DOMAIN tasks : ProbeOpenFails(i)
    \/ \E i \in DOMAIN tasks : ProbeClosed(i)
    \/ \E i \in DOMAIN tasks : ProbeCloseFails(i)
    \/ \E i \in DOMAIN tasks : ProbeRaises(i)
    \/ GatherReturns
    \/ GatherRaises

SpecHarness == InitClientSpec /\ [][NextHarness]_vars

(* The event loop runs every task that is ready, and every probe's await   *)
(* ends (the connection attempt has a deadline): a step that can be taken  *)
(* is taken.                                                               *)
SpecHarnessFair == InitClientSpec /\ [][NextHarness]_vars /\ WF_vars(NextHarness)

NonEmptyText(error) == \E k \in DOMAIN error : error[k] # ""

C25_ConcurrencyBound ==
    hpc # "idle" =>
        /\ Cardinality(Holding) <= max_concurrency
        /\ semaphore = max_concurrency - Cardinality(Holding)

C25_Witness ==
    /\ max_concurrency = 2
    /\ Cardinality(Holding) = 2
    /\ \E i \in DOMAIN tasks : tasks[i].pc = "waiting"
    /\ \E i \in DOMAIN tasks : tasks[i].pc = "done"

Done == {i \in DOMAIN tasks : tasks[i].pc = "done"}

(* C26: the list returned has one result per (host, port) pair, in         *)
(* host-major order; and the progress counter counts the probes that have  *)
(* finished, so it is len(hosts) * len(ports) when the list is returned.   *)
C26_OneResultPerPairInOrder ==
    /\ hpc = "returned" =>
          /\ DOMAIN results = 1..(Len(hosts) * Len(ports))
          /\ \A h \in DOMAIN hosts, q \in DOMAIN ports :
                /\ results[(h - 1) * Len(ports) + q].host = hosts[h]
                /\ results[(h - 1) * Len(ports) + q].port = ports[q]
    /\ hpc = "gathering" =>
          /\ progress_tasks[active_tasks[progress_id]].completed = Cardinality(Done)
          /\ Done = DOMAIN tasks =>
                progress_tasks[active_tasks[progress_id]].completed =
                    Len(hosts) * Len(ports)

C26_Witness ==
    /\ hpc = "returned"
    /\ Len(hosts) = 2 /\ Len(ports) = 2
    /\ results[2].success /\ ~results[3].success
    /\ results[2].host = "alpha" /\ results[3].host = "beta"

(* C27: when a probe task failed test_connections completes its progress   *)
(* task (the id leaves the active tasks) and raises, returning no list;    *)
(* when it returns the progress task was completed too; in both cases once. *)
C27_ProgressCompletedOnFailure ==
    /\ hpc = "gathering" => completions = 0 /\ progress_id \in DOMAIN active_tasks
    /\ hpc \in {"returned", "raised"} =>
          /\ completions = 1
          /\ progress_id \notin DOMAIN active_tasks
          /\ ~live_started
    /\ hpc = "raised" =>
          /\ \E i \in DOMAIN tasks : tasks[i].pc = "failed"
          /\ results = <<>>
    /\ hpc = "returned" => \A i \in DOMAIN tasks : tasks[i].pc = "done"

C27_Witness ==
    /\ hpc = "raised"
    /\ \E i \in DOMAIN tasks : tasks[i].pc = "done"
    /\ \E i \in DOMAIN tasks : tasks[i].pc = "waiting"
    /\ \E i \in DOMAIN tasks : tasks[i].pc = "closing"

(* ----------------------------------------------------------------------- *)
(* negotiate.py: the parser, byte by byte                                  *)
(* ----------------------------------------------------------------------- *)

MaxBytes == 7
ParserBytes == {IAC, SB, SE, DO, DONT, WILL, WONT, TERMINAL_TYPE, 65}

(* one iteration of handle_command's `for byte in data` loop *)
ProcessByte ==
    /\ nBytes < MaxBytes
    /\ \E byte \in ParserBytes :
        LET r == process_byte(negotiator, byte, parser.state, parser.cmd, parser.opt,
                              parser.subneg_option, parser.subneg_data)
        IN  /\ parser' = [state |-> r.state, cmd |-> r.cmd, opt |-> r.opt,
                          subneg_option |-> r.subneg_option,
                          subneg_data |-> r.subneg_data]
            /\ negotiator' = r.neg
            /\ pstep' = [byte |-> byte, before |-> parser.state,
                         response |-> r.response, emit |-> r.emit,
                         call |-> IF parser.state = ParserState_SUBNEG_IAC /\ byte = SE
                                  THEN <<[option |-> parser.subneg_option,
                                          data |-> parser.subneg_data]>>
                                  ELSE <<>>]
            /\ subneg_seen' =
                  IF parser.state = ParserState_IAC /\ byte = SB THEN <<>>
                  ELSE IF parser.state \in {ParserState_SUBNEG, ParserState_SUBNEG_IAC}
                  THEN Append(subneg_seen, byte)
                  ELSE subneg_seen
    /\ nBytes' = nBytes + 1
    /\ UNCHANGED <<negBefore, callData, retData, retResponses, fed, fedData,
                   fedResponses, nCalls>>
    /\ UNCHANGED <<netVars, clientVars, current_reader, current_writer, dpc, detResult,
                   detOpened, nDetects, passiveVars, raised, handoffVars, consoleVars,
                   harnessVars, lateVars>>

NextParser == ProcessByte

SpecParser == InitClientSpec /\ [][NextParser]_vars

(* the transition table: the state after byte b is read in state st *)
TransitionTable(st, b) ==
    CASE st = ParserState_DATA ->
           IF b = IAC THEN ParserState_IAC ELSE ParserState_DATA
      [] st = ParserState_IAC ->
           IF b = IAC THEN ParserState_DATA
           ELSE IF b = SB THEN ParserState_SUBNEG
           ELSE IF b \in {DO, DONT, WILL, WONT} THEN ParserState_COMMAND
           ELSE ParserState_DATA
      [] st = ParserState_COMMAND -> ParserState_DATA
      [] st = ParserState_SUBNEG ->
           IF b = IAC THEN ParserState_SUBNEG_IAC ELSE ParserState_SUBNEG
      [] st = ParserState_SUBNEG_IAC ->
           IF b = SE THEN ParserState_DATA ELSE ParserState_SUBNEG

(* C29: every byte moves the parser as the transition table says; a byte   *)
(* read in SUBNEG_IAC that is not SE appends IAC and the byte to the       *)
(* payload; and a byte is emitted as user data exactly in DATA when it is  *)
(* not IAC and in IAC when it is IAC (one 0xFF).                           *)
C29_ParserFollowsTable ==
    [][ nBytes' = nBytes + 1 =>
          /\ parser'.state = TransitionTable(parser.state, pstep'.byte)
          /\ (parser.state = ParserState_SUBNEG_IAC /\ pstep'.byte # SE =>
                parser'.subneg_data = parser.subneg_data \o <<IAC, pstep'.byte>>)
          /\ pstep'.emit =
                IF \/ parser.state = ParserState_DATA /\ pstep'.byte # IAC
                   \/ parser.state = ParserState_IAC /\ pstep'.byte = IAC
                THEN <<pstep'.byte>>
                ELSE <<>>
      ]_vars

C29_Witness ==
    /\ pstep.before = ParserState_SUBNEG_IAC
    /\ pstep.byte = WILL
    /\ parser.state = ParserState_SUBNEG
    /\ parser.subneg_data = <<IAC, WILL>>

(* C30: when IAC SE ends a sub-negotiation IAC SB o p1 .. pn with no IAC   *)
(* among o, p1 .. pn, the sub-negotiation handler is called with option o  *)
(* and payload p1 .. pn; and after a new IAC SB the payload is empty and   *)
(* no option is carried over from the sub-negotiation before.              *)
C30_SubnegotiationAssembly ==
    /\ pstep.call # <<>> /\ Len(subneg_seen) >= 3
          /\ NoIAC(SubSeq(subneg_seen, 1, Len(subneg_seen) - 2)) =>
          /\ pstep.call[1].option = subneg_seen[1]
          /\ pstep.call[1].data = SubSeq(subneg_seen, 2, Len(subneg_seen) - 2)
    /\ pstep.before = ParserState_IAC /\ pstep.byte = SB =>
          /\ parser.subneg_data = <<>>
          /\ parser.subneg_option = 0

ParserStates ==
    {ParserState_DATA, ParserState_IAC, ParserState_COMMAND, ParserState_SUBNEG,
     ParserState_SUBNEG_IAC}

(* C31: every byte is handled, leaving the parser in one of its states;    *)
(* and an IAC followed by a byte that is not IAC, SB, DO, DONT, WILL or    *)
(* WONT is dropped with the IAC: no user data, no reply, no change of the  *)
(* option maps, and the parser back in DATA.                               *)
C31_UnknownCommandIsDropped ==
    [][ nBytes' = nBytes + 1 =>
          /\ parser'.state \in ParserStates
          /\ (parser.state = ParserState_IAC
                /\ pstep'.byte \notin {IAC, SB, DO, DONT, WILL, WONT} =>
                  /\ pstep'.emit = <<>>
                  /\ pstep'.response = <<>>
                  /\ negotiator' = negotiator
                  /\ parser'.state = ParserState_DATA)
      ]_vars

C31_Witness ==
    /\ pstep.before = ParserState_IAC
    /\ pstep.byte = SE
    /\ parser.state = ParserState_DATA
    /\ nBytes = 4

(* C32: when a connection has just been opened after an earlier close()   *)
(* of the same client, and no byte of it has been processed, our_options   *)
(* and their_options are those of a freshly constructed client: empty.     *)
C32_NegotiationStateIsPerConnection ==
    pc = "connect_drain" /\ nCloses > 0 =>
        /\ negotiator.our_options = EmptyDict
        /\ negotiator.their_options = EmptyDict

(* ----------------------------------------------------------------------- *)
(* client.py: interact() and _interactive_reader                           *)
(* ----------------------------------------------------------------------- *)

MaxLines == 1
MaxReaderChunks == 1
MaxIdle == 10

(* command.encode() + newline.encode() for the lines typed: "" and "Hi" *)
LinePayloads == { <<13, 10>>, <<72, 105, 13, 10>> }

(* what interact() and its reader task leave alone *)
clientRest == <<writeArg, writeDone, nWrites, callVars>>
detCore == <<current_reader, current_writer, dpc, detResult, detOpened, nDetects,
             passiveVars, raised, handoffVars>>
earlyTools == <<consoleVars, harnessVars, parserVars, exchangeVars, bufferVars>>
negHistory == <<fed, fedData, fedResponses, nCalls>>

(* read_task = asyncio_create_task(self._interactive_reader()) *)
spawn_reader ==
    /\ rpc' = "start"
    /\ ipc' = "input"
    /\ wire_base' = Len(wire)
    /\ frames' = <<>>

(* interact(): connected already, or connect() is awaited *)
InteractCall ==
    /\ ipc = "idle"
    /\ pc = "idle"
    /\ IF is_connected
       THEN /\ spawn_reader
            /\ UNCHANGED <<pc, connectResult, attemptStream>>
       ELSE /\ nOpened < MaxStreams
            /\ ipc' = "connecting"
            /\ pc' = "connect_open"
            /\ connectResult' = "pending"
            /\ attemptStream' = None
            /\ UNCHANGED <<rpc, wire_base, frames>>
    /\ UNCHANGED <<idle_count, cancel_sent, ending, reader_step, nLines, nChunks>>
    /\ UNCHANGED <<reader, writer, clientRest, negVars, netVars, detCore, earlyTools>>

(* connect() has returned: False ends interact() before any task exists *)
InteractConnected ==
    /\ pc = "interact_connected"
    /\ pc' = "idle"
    /\ CASE connectResult = "true" ->
              /\ spawn_reader
         [] connectResult = "false" ->
              /\ ipc' = "returned"
              /\ UNCHANGED <<rpc, wire_base, frames>>
         [] OTHER ->
              /\ ipc' = "raised"
              /\ UNCHANGED <<rpc, wire_base, frames>>
    /\ UNCHANGED <<idle_count, cancel_sent, ending, reader_step, nLines, nChunks>>
    /\ UNCHANGED <<reader, writer, connectResult, attemptStream, clientRest, negVars,
                   netVars, detCore, earlyTools>>

(* input() returns a line: send_command(line) writes the payload in one    *)
(* writer.write and awaits the drain                                       *)
InputLine_writes_partial ==
    /\ ipc = "input"
    /\ nLines < MaxLines
    /\ nLines' = nLines + 1
    /\ \E data \in LinePayloads :
          IF writer = None
          THEN UNCHANGED <<ipc, wire, frames>>
          ELSE /\ StreamWrite(writer, SubSeq(write_payload(data), 1, Len(data) - 1))
               /\ frames' = Append(frames, write_payload(data))
               /\ ipc' = "send_drain"
    /\ UNCHANGED <<rpc, idle_count, cancel_sent, ending, wire_base, reader_step, nChunks>>
    /\ UNCHANGED <<reader, writer, pc, connectResult, attemptStream, clientRest, negVars,
                   nOpened, openStreams, detCore, earlyTools>>

InputLine ==
    /\ ipc = "input"
    /\ nLines < MaxLines
    /\ nLines' = nLines + 1
    /\ \E data \in LinePayloads :
          IF writer = None
          THEN UNCHANGED <<ipc, wire, frames>>
          ELSE /\ StreamWrite(writer, write_payload(data))
               /\ frames' = Append(frames, write_payload(data))
               /\ ipc' = "send_drain"
    /\ UNCHANGED <<rpc, idle_count, cancel_sent, ending, wire_base, reader_step, nChunks>>
    /\ UNCHANGED <<reader, writer, pc, connectResult, attemptStream, clientRest, negVars,
                   nOpened, openStreams, detCore, earlyTools>>

(* finally: read_task.cancel(), then the task is awaited *)
interact_finally_without_cancel(how) ==
    /\ ipc' = IF how = "return" THEN "returned" ELSE "raised"
    /\ ending' = how
    /\ UNCHANGED cancel_sent

interact_finally(how) ==
    /\ ipc' = "joining"
    /\ ending' = how
    /\ cancel_sent' = TRUE

(* input() raises KeyboardInterrupt or EOFError: logged, then finally *)
InputEnds ==
    /\ ipc = "input"
    /\ interact_finally("return")
    /\ UNCHANGED <<rpc, idle_count, frames, wire_base, reader_step, nLines, nChunks>>
    /\ UNCHANGED <<reader, writer, pc, connectResult, attemptStream, clientRest, negVars,
                   netVars, detCore, earlyTools>>

SendDrained ==
    /\ ipc = "send_drain"
    /\ ipc' = "input"
    /\ UNCHANGED <<rpc, idle_count, cancel_sent, ending, frames, wire_base, reader_step,
                   nLines, nChunks>>
    /\ UNCHANGED <<reader, writer, pc, connectResult, attemptStream, clientRest, negVars,
                   netVars, detCore, earlyTools>>

(* the drain raises (a reset connection): finally, and the error goes on *)
SendFails ==
    /\ ipc = "send_drain"
    /\ interact_finally("raise")
    /\ UNCHANGED <<rpc, idle_count, frames, wire_base, reader_step, nLines, nChunks>>
    /\ UNCHANGED <<reader, writer, pc, connectResult, attemptStream, clientRest, negVars,
                   netVars, detCore, earlyTools>>

(* `await read_task` returns or raises the CancelledError that is          *)
(* suppressed: the task is done; interact() returns or raises              *)
InteractJoined ==
    /\ ipc = "joining"
    /\ rpc \in {"cancelled", "ended"}
    /\ ipc' = IF ending = "return" THEN "returned" ELSE "raised"
    /\ UNCHANGED <<rpc, idle_count, cancel_sent, ending, frames, wire_base, reader_step,
                   nLines, nChunks>>
    /\ UNCHANGED <<reader, writer, pc, connectResult, attemptStream, clientRest, negVars,
                   netVars, detCore, earlyTools>>

(* _interactive_reader after read() returned data: a non-empty result is   *)
(* logged and idle_count reset, and the next read() is awaited; an empty   *)
(* one raises idle_count, at most to 10, and the task sleeps.              *)
reader_got(data) ==
    IF Len(data) > 0
    THEN /\ idle_count' = 0
         /\ reader_step' = "data"
         /\ rpc' = "read"
    ELSE /\ idle_count' = IF idle_count + 1 < MaxIdle THEN idle_count + 1 ELSE MaxIdle
         /\ reader_step' = "empty"
         /\ rpc' = "sleep"

(* the task starts, or its sleep ends: read(time_limit=0.1) is awaited *)
ReaderReads ==
    /\ rpc \in {"start", "sleep"}
    /\ ~cancel_sent
    /\ IF reader = None
       THEN reader_got(<<>>)
       ELSE /\ rpc' = "read"
            /\ UNCHANGED <<idle_count, reader_step>>
    /\ UNCHANGED <<ipc, cancel_sent, ending, frames, wire_base, nLines, nChunks>>
    /\ UNCHANGED <<reader, writer, pc, connectResult, attemptStream, clientRest, negVars,
                   netVars, detCore, earlyTools>>

(* read(): the deadline expires, or the stream is at its end *)
ReaderReadEmpty ==
    /\ rpc = "read"
    /\ ~cancel_sent
    /\ reader_got(<<>>)
    /\ UNCHANGED <<ipc, cancel_sent, ending, frames, wire_base, nLines, nChunks>>
    /\ UNCHANGED <<reader, writer, pc, connectResult, attemptStream, clientRest, negVars,
                   netVars, detCore, earlyTools>>

(* read(): a chunk arrives; _process_negotiation writes the joined replies *)
(* in one writer.write and awaits the drain, or returns the data at once   *)
ReaderReadChunk ==
    /\ rpc = "read"
    /\ ~cancel_sent
    /\ nChunks < MaxReaderChunks
    /\ nChunks' = nChunks + 1
    /\ \E data \in ReadChunks \ {<<>>} :
          /\ ParseChunk(data)
          /\ LET r == handle_command(negotiator, data)
             IN  IF Len(r.responses) > 0 /\ writer # None
                 THEN /\ StreamWrite(writer, JoinBytes(r.responses))
                      /\ frames' = Append(frames, JoinBytes(r.responses))
                      /\ rpc' = "reply_drain"
                      /\ UNCHANGED <<idle_count, reader_step, nOpened, openStreams>>
                 ELSE /\ reader_got(r.processed)
                      /\ UNCHANGED <<frames, netVars>>
    /\ UNCHANGED <<ipc, cancel_sent, ending, wire_base, nLines>>
    /\ UNCHANGED <<reader, writer, pc, connectResult, attemptStream, clientRest, detCore,
                   earlyTools>>

(* the drain of the replies returns: read() returns the processed data *)
ReaderReplyDrained ==
    /\ rpc = "reply_drain"
    /\ ~cancel_sent
    /\ reader_got(retData)
    /\ UNCHANGED <<ipc, cancel_sent, ending, frames, wire_base, nLines, nChunks>>
    /\ UNCHANGED <<reader, writer, pc, connectResult, attemptStream, clientRest, negVars,
                   netVars, detCore, earlyTools>>

(* read() or the logging raises an Exception: `except Exception` logs it   *)
(* and the task ends                                                       *)
ReaderFails ==
    /\ rpc \in {"read", "reply_drain"}
    /\ ~cancel_sent
    /\ rpc' = "ended"
    /\ UNCHANGED <<ipc, idle_count, cancel_sent, ending, frames, wire_base, reader_step,
                   nLines, nChunks>>
    /\ UNCHANGED <<reader, writer, pc, connectResult, attemptStream, clientRest, negVars,
                   netVars, detCore, earlyTools>>

(* the cancellation reaches the task at its await: CancelledError is not   *)
(* an Exception, the task ends cancelled                                   *)
ReaderCancelled ==
    /\ rpc \in {"start", "read", "reply_drain", "sleep"}
    /\ cancel_sent
    /\ rpc' = "cancelled"
    /\ UNCHANGED <<ipc, idle_count, cancel_sent, ending, frames, wire_base, reader_step,
                   nLines, nChunks>>
    /\ UNCHANGED <<reader, writer, pc, connectResult, attemptStream, clientRest, negVars,
                   netVars, detCore, earlyTools>>

NextInteract ==
    \/ InteractCall
    \/ ConnectOpenFails
    \/ ConnectOpenCancelled
    \/ ConnectOpened
    \/ ConnectFailsAfterOpen
    \/ ConnectCancelledAfterOpen
    \/ ConnectDrained
    \/ ConnectSlept
    \/ ConnectReadTimesOut
    \/ ConnectReadReturns
    \/ ConnectReplyDrained
    \/ InteractConnected
    \/ InputLine
    \/ InputEnds
    \/ SendDrained
    \/ SendFails
    \/ InteractJoined
    \/ ReaderReads
    \/ ReaderReadEmpty
    \/ ReaderReadChunk
    \/ ReaderReplyDrained
    \/ ReaderFails
    \/ ReaderCancelled

SpecInteract == InitClientSpec /\ [][NextInteract]_vars

(* C33: interact() ends only with its reader task done: whenever it       *)
(* returns or raises after the task was spawned, the task was cancelled    *)
(* and has ended; a connect() that did not succeed spawns no task; and the *)
(* task's idle counter stays within 0..10, rises by one (up to 10) on an   *)
(* empty read and is 0 after a non-empty read.                             *)
C33_ReaderTaskBoundedByInteract ==
    [][ /\ (ipc' \in {"returned", "raised"} /\ rpc' # "none" =>
              cancel_sent' /\ rpc' \in {"cancelled", "ended"})
        /\ (pc = "interact_connected" /\ connectResult # "true" =>
              rpc' = "none" /\ ipc' \in {"returned", "raised"})
        /\ idle_count' \in 0..MaxIdle
        /\ (rpc' = "sleep" /\ rpc # "sleep" =>
              idle_count' = IF idle_count < MaxIdle THEN idle_count + 1 ELSE MaxIdle)
        /\ (rpc' = "read" /\ (rpc = "reply_drain" \/ nChunks' # nChunks) =>
              idle_count' = 0)
      ]_vars

C33_Witness ==
    /\ ipc = "raised"
    /\ ending = "raise"
    /\ rpc = "cancelled"
    /\ idle_count = MaxIdle
    /\ nChunks = 1

(* the payloads written to the wire since the reader task was spawned *)
WirePayloads == [k \in 1..(Len(wire) - wire_base) |-> wire[wire_base + k].payload]

(* C37: the bytes on the wire are the frames of the two tasks, each whole, *)
(* in the order in which they were handed to the writer: the escaped       *)
(* payload of every write() and the joined replies of every chunk.         *)
C37_FramesDoNotInterleave ==
    rpc # "none" => JoinBytes(WirePayloads) = JoinBytes(frames)

C37_Witness ==
    /\ ipc = "send_drain"
    /\ rpc = "reply_drain"
    /\ Len(frames) = 2
    /\ frames[2] = <<72, 105, 13, 10>>

(* ----------------------------------------------------------------------- *)
(* The two option mappings                                                 *)
(* ----------------------------------------------------------------------- *)

(* d2 differs from d1 at most in the entry of key *)
SameExceptAt(d1, d2, key) ==
    /\ DOMAIN d1 \ {key} = DOMAIN d2 \ {key}
    /\ \A k \in DOMAIN d1 \ {key} : d2[k] = d1[k]

(* C34 as stated: after any sequence of negotiation commands an option     *)
(* code appears in at most one of the two mappings our_options and         *)
(* their_options.                                                          *)
C34_OptionInOneMapping ==
    \A o \in 0..255 :
        ~(o \in DOMAIN negotiator.our_options /\ o \in DOMAIN negotiator.their_options)

(* C34 amended: the two mappings are independent, one per direction. A     *)
(* DO or DONT for option o changes at most the entry of o in our_options   *)
(* and leaves their_options alone, a WILL or WONT for o changes at most    *)
(* the entry of o in their_options and leaves our_options alone; the same  *)
(* option code may be present in both mappings.                            *)
C34_MappingsAreIndependent ==
    \A o \in ModelOptions :
        /\ \A c \in {DO, DONT} :
              (Called /\ callData = <<255, c, o>>) =>
                  /\ negotiator.their_options = negBefore.their_options
                  /\ SameExceptAt(negBefore.our_options, negotiator.our_options, o)
        /\ \A c \in {WILL, WONT} :
              (Called /\ callData = <<255, c, o>>) =>
                  /\ negotiator.our_options = negBefore.our_options
                  /\ SameExceptAt(negBefore.their_options, negotiator.their_options, o)

C34_Witness ==
    /\ nCalls = 2
    /\ callData = <<255, WILL, SGA>>
    /\ DictTrue(negotiator.our_options, SGA)
    /\ DictTrue(negotiator.their_options, SGA)

(* C35: for every option, those with a per-option handler included,        *)
(* our_options[o] is true only if the most recent DO or DONT handled for o *)
(* was DO and their_options[o] is true only if the most recent WILL or     *)
(* WONT handled for o was WILL: after a DONT o the entry of o in           *)
(* our_options is not true, after a WONT o the entry in their_options is   *)
(* not true, a command of the other direction leaves the mapping as it     *)
(* was, and sub-negotiation frames and user data change neither mapping.   *)
C35_OptionsFollowLastCommand ==
    /\ \A o \in ModelOptions :
          /\ (Called /\ callData = <<255, DONT, o>>) =>
                ~DictTrue(negotiator.our_options, o)
          /\ (Called /\ callData = <<255, WONT, o>>) =>
                ~DictTrue(negotiator.their_options, o)
          /\ (Called /\ callData \in {<<255, WILL, o>>, <<255, WONT, o>>}) =>
                negotiator.our_options = negBefore.our_options
          /\ (Called /\ callData \in {<<255, DO, o>>, <<255, DONT, o>>}) =>
                negotiator.their_options = negBefore.their_options
    /\ (Called /\ callData \in { <<IAC, SB, o, 1, IAC, SE>> : o \in {TERMINAL_TYPE, NAWS} }
                                  \cup { <<72, 105>>, <<>> }) =>
          /\ negotiator.our_options = negBefore.our_options
          /\ negotiator.their_options = negBefore.their_options

(* C36: the detector never loses track of an open stream: whenever the     *)
(* passive phase, the TLS probe or the HTTP probe stores a new pair in the *)
(* slot, the stream the slot held before has already been closed; hence    *)
(* after any sequence of detect() calls on one detector at most one stream *)
(* opened by it is still open.  (Under SpecDetect every stream is opened   *)
(* by the detector.)                                                       *)
C36_SlotNeverDropsOpenStream ==
    [][ /\ (current_writer' # current_writer /\ current_writer' # None) =>
              (current_writer = None \/ current_writer \notin openStreams)
        /\ Cardinality(openStreams') <= 1
      ]_vars

(* C38: test_connections terminates for every host list, port list and     *)
(* every max_concurrency the semaphore accepts: once it awaits the probes,  *)
(* every probe task eventually acquires the semaphore and test_connections *)
(* eventually returns or raises.                                           *)
C38_TestConnectionsTerminates ==
    (hpc = "gathering") ~>
        (/\ hpc \in {"returned", "raised"}
         /\ \A i \in DOMAIN tasks : tasks[i].pc # "waiting")

(* ----------------------------------------------------------------------- *)
(* Two peers that both run this negotiator                                 *)
(* ----------------------------------------------------------------------- *)


(* the commands of get_initial_negotiation, one frame each *)
InitialFrames ==
    [k \in 1..(Len(get_initial_negotiation) \div 3) |->
        SubSeq(get_initial_negotiation, 3 * k - 2, 3 * k)]

(* two peers are constructed and one of them sends the initial negotiation *)
ExchangeStarts ==
    /\ xpc = "idle"
    /\ xpc' = "started"
    /\ \E pa \in Profiles, pb \in Profiles, first \in {"a", "b"} :
          /\ peers' = [p \in {"a", "b"} |->
                          IF p = "a" THEN TelnetNegotiator(pa.tt, pa.w, pa.h)
                          ELSE TelnetNegotiator(pb.tt, pb.w, pb.h)]
          /\ inbox' = [p \in {"a", "b"} |->
                          IF p = first THEN <<>> ELSE InitialFrames]
    /\ UNCHANGED <<mainVars, consoleVars, harnessVars, parserVars, interactVars, bufferVars>>

(* peer p reads the next frames sent to it, one or more of them in one     *)
(* chunk, feeds the chunk into handle_command and writes the replies to    *)
(* the other peer                                                          *)
PeerReads(p) ==
    /\ xpc = "started"
    /\ \E k \in 1..Len(inbox[p]) :
          \E r \in { handle_command(peers[p], JoinBytes(SubSeq(inbox[p], 1, k))) } :
                /\ peers' = [peers EXCEPT ![p] = r.neg]
                /\ inbox' = [q \in {"a", "b"} |->
                                IF q = p THEN SubSeq(inbox[p], k + 1, Len(inbox[p]))
                                ELSE inbox[q] \o r.responses]
    /\ UNCHANGED <<xpc, mainVars, consoleVars, harnessVars, parserVars, interactVars,
                   bufferVars>>

NextExchange ==
    \/ ExchangeStarts
    \/ PeerReads("a")
    \/ PeerReads("b")

(* each peer's event loop reads what has arrived *)
SpecExchange == InitClientSpec /\ [][NextExchange]_vars /\ WF_vars(NextExchange)

(* C39: the exchange between two peers that both apply this negotiator's   *)
(* policy, started by one peer's initial negotiation, quiesces: eventually *)
(* no frame is in flight in either direction.                              *)
C39_ExchangeQuiesces ==
    (xpc = "started") ~> (inbox["a"] = <<>> /\ inbox["b"] = <<>>)

(* ----------------------------------------------------------------------- *)
(* client.py: read_until's buffer arithmetic                               *)
(* The bytes themselves are left out: a chunk is its length, and the       *)
(* buffer's content below pos is the list of the chunks copied there.      *)
(* ----------------------------------------------------------------------- *)

BufferCapacity == 4096
ReadSize == 1024
MaxCopied == 9

(* len(chunk) for a non-empty chunk read() returned: read(size=1024) gives *)
(* at most ReadSize bytes and the negotiator only takes bytes away         *)
ChunkLengths == {1, 1000, ReadSize}

RECURSIVE SumLens(_)
SumLens(lens) == IF Len(lens) = 0 THEN 0 ELSE Head(lens) + SumLens(Tail(lens))

(* the `if pos + len(chunk) > len(buffer)` block left out *)
ensure_space_without_growth(size, content, p, n) ==
    [size |-> size, content |-> content]

(* `if pos + len(chunk) > len(buffer)`: a new buffer of twice the size     *)
(* whose first pos bytes are those of the old one                          *)
ensure_space(size, content, p, n) ==
    IF p + n > size
    THEN [size |-> size * 2, content |-> content]
    ELSE [size |-> size, content |-> content]

(* read_until up to its loop: buffer = bytearray(4096), pos = 0 *)
UntilBufferCall ==
    /\ bpc = "idle"
    /\ bpc' = "loop"
    /\ buffer_size' = BufferCapacity
    /\ pos' = 0
    /\ held' = <<>>
    /\ UNCHANGED <<nCopied, mainVars, consoleVars, harnessVars, parserVars, interactVars,
                   exchangeVars>>

(* one iteration with a non-empty chunk: space is ensured, the chunk is    *)
(* copied to view[pos : pos + len(chunk)] (a ValueError if it does not     *)
(* fit), pos advances, and the pattern is searched: found, the buffer is   *)
(* returned, otherwise the loop goes on                                    *)
UntilBufferChunk ==
    /\ bpc = "loop"
    /\ nCopied < MaxCopied
    /\ \E n \in ChunkLengths :
          \E b \in { ensure_space(buffer_size, held, pos, n) } :
              /\ buffer_size' = b.size
              /\ IF pos + n <= b.size
                 THEN /\ held' = Append(b.content, n)
                      /\ pos' = pos + n
                      /\ nCopied' = nCopied + 1
                      /\ bpc' \in {"loop", "returned"}
                 ELSE /\ held' = b.content
                      /\ bpc' = "raised"
                      /\ UNCHANGED <<pos, nCopied>>
    /\ UNCHANGED <<mainVars, consoleVars, harnessVars, parserVars, interactVars,
                   exchangeVars>>

(* the deadline passes at the loop's test: TimeoutError *)
UntilBufferDeadline ==
    /\ bpc = "loop"
    /\ bpc' = "timeout"
    /\ UNCHANGED <<buffer_size, pos, held, nCopied, mainVars, consoleVars, harnessVars,
                   parserVars, interactVars, exchangeVars>>

NextBuffer ==
    \/ UntilBufferCall
    \/ UntilBufferChunk
    \/ UntilBufferDeadline

SpecBuffer == InitClientSpec /\ [][NextBuffer]_vars

(* C40: in read_until the buffer never overflows. It starts with 4096      *)
(* bytes and is doubled at most once per chunk; whenever a chunk of at     *)
(* most 1024 bytes is copied, pos + len(chunk) <= len(buffer); pos is the  *)
(* number of user-data bytes received so far, and what lay below pos is    *)
(* still there after a doubling.                                           *)
C40_BufferNeverOverflows ==
    [][ /\ bpc' # "raised"
        /\ (bpc = "idle" /\ bpc' = "loop" => buffer_size' = BufferCapacity /\ pos' = 0)
        /\ (nCopied' = nCopied + 1 =>
              /\ buffer_size' \in {buffer_size, 2 * buffer_size}
              /\ pos' <= buffer_size'
              /\ pos' = SumLens(held')
              /\ Len(held') = Len(held) + 1
              /\ SubSeq(held', 1, Len(held)) = held
              /\ pos' - pos = held'[Len(held')])
      ]_vars

C40_Witness ==
    /\ buffer_size = 4 * BufferCapacity
    /\ pos > 2 * BufferCapacity
    /\ bpc = "returned"
====
